---------------------------- MODULE Spec2Model ----------------------------
(***************************************************************************)
(* A model of the markdown rendering pipeline of skill-scope               *)
(* (src/src/utils/markdown-renderer.jsx): parseMarkdown, its table         *)
(* pre-pass, detectTable, detectList and parseInlineMarkdown; of its       *)
(* session storage service (src/src/services/session-storage.js); and of   *)
(* the request state of its useTranscriptAnalyzer hook.                    *)
(*                                                                         *)
(* A string is a sequence of one-character strings.  Offsets into a string *)
(* are 0-based, as in JavaScript; Substring(s, a, b) is s.substring(a, b). *)
(* A React element is a record holding the element's key and the content   *)
(* the element displays.                                                   *)
(***************************************************************************)
EXTENDS Integers, Sequences, FiniteSets, TLC

VARIABLES
    \* parseMarkdown
    doc, text, pc, processedText, tablePlaceholders, blocks, blockIdx, elements,
    \* parseInlineMarkdown
    itext, ipc, matches, validMatches, parts, iresult,
    \* detectTable
    tblock, tpc, tresult,
    \* detectList
    lblock, lpc, lresult,
    \* session-storage.js: the item stored under STORAGE_KEY, the messages
    \* passed to the addMessage calls that stored one since the last
    \* clearHistory, the number of messages stored so far (the time Date.now()
    \* reads), the last call's outcome
    stored, added, sclock, outcome,
    \* useTranscriptAnalyzer: its state, the completion requests awaited by
    \* handleSubmit (each with its isFollowUp, the messages it sent and the
    \* response streamed so far), whether processFile awaits the extraction,
    \* what the last handler did, the transcripts whose summarization is
    \* awaited, the number of requests sent so far
    isLoading, isStreaming, isProcessing, summarizedText, additionalContext, error,
    inFlight, extracting, handled,
    messages, streamingText, uploadedFileName, processingStage, summarizing, sent,
    \* one call of a session-storage.js function on a stored history: the
    \* call and what it returned
    called, returned,
    \* sendStreamingRequest: the response body, how much of it the reads have
    \* delivered, the buffer, fullText, the chunks handed to onChunk, the
    \* position, whether some read ended inside a line
    body, readPos, buffer, fullText, chunks, spc, cut

mdVars  == <<doc, text, pc, processedText, tablePlaceholders, blocks, blockIdx, elements>>
inlVars == <<itext, ipc, matches, validMatches, parts, iresult>>
tblVars == <<tblock, tpc, tresult>>
lstVars == <<lblock, lpc, lresult>>
\* the functions and modules modelled after the first three
stoVars == <<stored, added, sclock, outcome>>
hookVars == <<isLoading, isStreaming, isProcessing, summarizedText, additionalContext, error,
              inFlight, extracting, handled,
              messages, streamingText, uploadedFileName, processingStage, summarizing, sent>>
callVars == <<called, returned>>
strVars == <<body, readPos, buffer, fullText, chunks, spc, cut>>
svcVars == <<callVars, strVars>>
moreVars == <<lstVars, stoVars, hookVars, svcVars>>
vars    == <<mdVars, inlVars, tblVars, moreVars>>

(***************************************************************************)
(* Bounds of the explored inputs.                                          *)
(***************************************************************************)
MaxChunks == 3
MaxToks   == 4
MaxRows   == 4
MaxLines  == 3
MaxListLines == 4
MaxAdds == 6
MaxRequests == 2
MaxPending == 1
MaxStreamLines == 3
MaxRead == 12

(***************************************************************************)
(* Characters and strings.                                                 *)
(***************************************************************************)
NL == "\n"

\* the backtick character (U+0060), which a TLA+ string cannot hold
BT == "BACKTICK"

\* \s of a JavaScript regular expression, and what String.prototype.trim strips
Whitespace == {" ", "\n", "\t", "\r"}

Digit == {"0", "1", "2", "3", "4", "5", "6", "7", "8", "9"}

Letter ==
    {"a", "b", "c", "d", "e", "f", "g", "h", "i", "j", "k", "l", "m",
     "n", "o", "p", "q", "r", "s", "t", "u", "v", "w", "x", "y", "z",
     "A", "B", "C", "D", "E", "F", "G", "H", "I", "J", "K", "L", "M",
     "N", "O", "P", "Q", "R", "S", "T", "U", "V", "W", "X", "Y", "Z"}

\* \w of a JavaScript regular expression
WordChar == Letter \cup Digit \cup {"_"}

Undefined == "undefined"

Min(a, b) == IF a < b THEN a ELSE b
Max(a, b) == IF a > b THEN a ELSE b

\* s.charAt(i), "" when i is out of range
CharAt(s, i) == IF i >= 0 /\ i < Len(s) THEN s[i + 1] ELSE ""

\* s.substring(a, b)
Substring(s, a, b) == SubSeq(s, Min(Max(a, 0), Len(s)) + 1, Min(Max(b, 0), Len(s)))

\* s.substring(a)
SubstringFrom(s, a) == Substring(s, a, Len(s))

\* s.startsWith(p, at)
StartsWithAt(s, p, at) == at + Len(p) <= Len(s) /\ Substring(s, at, at + Len(p)) = p

\* s.includes(c) for a single character c
Includes(s, c) == \E i \in 1..Len(s) : s[i] = c

SetMin(S) == CHOOSE x \in S : \A y \in S : x <= y
SetMax(S) == CHOOSE x \in S : \A y \in S : x >= y

\* the least offset j >= from with s[j] in S, Len(s) when there is none
FirstIn(s, from, S) ==
    LET js == {j \in Max(from, 0)..(Len(s) - 1) : s[j + 1] \in S}
    IN  IF js = {} THEN Len(s) ELSE SetMin(js)

\* the least offset j >= from with s[j] not in S, Len(s) when there is none
FirstNotIn(s, from, S) ==
    LET js == {j \in Max(from, 0)..(Len(s) - 1) : s[j + 1] \notin S}
    IN  IF js = {} THEN Len(s) ELSE SetMin(js)

\* the greatest offset j < upto with s[j] not in S, -1 when there is none
LastNotIn(s, upto, S) ==
    LET js == {j \in 0..(Min(upto, Len(s)) - 1) : s[j + 1] \notin S}
    IN  IF js = {} THEN -1 ELSE SetMax(js)

\* s.indexOf(p, from), -1 when p does not occur
IndexOf(s, p, from) ==
    LET js == {j \in Max(from, 0)..(Len(s) - Len(p)) : StartsWithAt(s, p, j)}
    IN  IF js = {} THEN -1 ELSE SetMin(js)

\* s.trim()
Trim(s) ==
    LET a == FirstNotIn(s, 0, Whitespace)
        b == LastNotIn(s, Len(s), Whitespace)
    IN  IF a >= Len(s) THEN <<>> ELSE Substring(s, a, b + 1)

\* s.split('\n')
RECURSIVE SplitLines(_)
SplitLines(s) ==
    LET j == FirstIn(s, 0, {NL})
    IN  IF j >= Len(s) THEN <<s>>
        ELSE <<Substring(s, 0, j)>> \o SplitLines(SubstringFrom(s, j + 1))

\* parts.join(sep)
RECURSIVE Join(_, _)
Join(ss, sep) ==
    IF ss = <<>> THEN <<>>
    ELSE IF Len(ss) = 1 THEN ss[1]
    ELSE ss[1] \o sep \o Join(Tail(ss), sep)

\* the concatenation of a sequence of sequences
RECURSIVE Concat(_)
Concat(ss) == IF ss = <<>> THEN <<>> ELSE Head(ss) \o Concat(Tail(ss))

UpperCase == <<"A", "B", "C", "D", "E", "F", "G", "H", "I", "J", "K", "L", "M",
               "N", "O", "P", "Q", "R", "S", "T", "U", "V", "W", "X", "Y", "Z">>
LowerCase == <<"a", "b", "c", "d", "e", "f", "g", "h", "i", "j", "k", "l", "m",
               "n", "o", "p", "q", "r", "s", "t", "u", "v", "w", "x", "y", "z">>

\* s.toLowerCase()
toLowerCase(s) ==
    [k \in 1..Len(s) |->
        IF \E u \in 1..26 : UpperCase[u] = s[k]
        THEN LowerCase[CHOOSE u \in 1..26 : UpperCase[u] = s[k]]
        ELSE s[k]]

\* the sequences of at most n elements of S
SeqsUpTo(S, n) == UNION {[1..k -> S] : k \in 0..n}

Range(s) == {s[i] : i \in 1..Len(s)}

(***************************************************************************)
(* parseInlineMarkdown: the five patterns.  Each XxxEnd(s, i) is the end   *)
(* offset of the pattern's match starting at offset i, or -1 when the      *)
(* pattern does not match at i.                                            *)
(***************************************************************************)

\* /`([^`\n]+)`/
CodeEnd(s, i) ==
    IF CharAt(s, i) # BT THEN -1
    ELSE LET j == FirstIn(s, i + 1, {BT, NL})
         IN  IF j > i + 1 /\ CharAt(s, j) = BT THEN j + 1 ELSE -1

\* /\[([^\]]+)\]\(([^)]+)\)/ : the offset of the "]" that ends the link text
LinkTextEnd(s, i) == FirstIn(s, i + 1, {"]"})

LinkEnd(s, i) ==
    IF CharAt(s, i) # "[" THEN -1
    ELSE LET j == LinkTextEnd(s, i)
             k == FirstIn(s, j + 2, {")"})
         IN  IF j > i + 1 /\ CharAt(s, j) = "]" /\ CharAt(s, j + 1) = "("
                /\ k > j + 2 /\ CharAt(s, k) = ")"
             THEN k + 1 ELSE -1

\* \b : a word character on exactly one side of offset i
WordBoundary(s, i) == (CharAt(s, i - 1) \in WordChar) # (CharAt(s, i) \in WordChar)

\* the greatest e in lo..hi with a word boundary at e, -1 when there is none
RECURSIVE LastBoundary(_, _, _)
LastBoundary(s, lo, hi) ==
    IF hi < lo THEN -1
    ELSE IF WordBoundary(s, hi) THEN hi
    ELSE LastBoundary(s, lo, hi - 1)

\* where "http://" or "https://" ends when it starts at i, -1 otherwise
SchemeEnd(s, i) ==
    IF StartsWithAt(s, <<"h", "t", "t", "p", "s", ":", "/", "/">>, i) THEN i + 8
    ELSE IF StartsWithAt(s, <<"h", "t", "t", "p", ":", "/", "/">>, i) THEN i + 7
    ELSE -1

\* /\b(https?:\/\/[^\s<>()]+)\b/ : the greedy run gives characters back until
\* it ends at a word boundary
AutolinkEnd(s, i) ==
    LET a == SchemeEnd(s, i)
    IN  IF a = -1 \/ ~WordBoundary(s, i) THEN -1
        ELSE LastBoundary(s, a + 1, FirstIn(s, a, Whitespace \cup {"<", ">", "(", ")"}))

\* /\*\*([^*\n]+?)\*\*/
BoldEnd(s, i) ==
    IF ~StartsWithAt(s, <<"*", "*">>, i) THEN -1
    ELSE LET j == FirstIn(s, i + 2, {"*", NL})
         IN  IF j > i + 2 /\ StartsWithAt(s, <<"*", "*">>, j) THEN j + 2 ELSE -1

\* /\*([^*\s\n][^*\n]*?[^*\s\n]|[^*\s\n])\*/
ItalicEnd(s, i) ==
    IF CharAt(s, i) # "*" THEN -1
    ELSE LET j == FirstIn(s, i + 1, {"*", NL})
         IN  IF j > i + 1 /\ CharAt(s, j) = "*"
                /\ CharAt(s, i + 1) \notin Whitespace
                /\ CharAt(s, j - 1) \notin Whitespace
             THEN j + 1 ELSE -1

\* the patterns array, in its order
patterns == <<"code", "link", "autolink", "bold", "italic">>

PatternEnd(type, s, i) ==
    CASE type = "code"     -> CodeEnd(s, i)
      [] type = "link"     -> LinkEnd(s, i)
      [] type = "autolink" -> AutolinkEnd(s, i)
      [] type = "bold"     -> BoldEnd(s, i)
      [] type = "italic"   -> ItalicEnd(s, i)

\* match[1] and match[2] of the match of `type` over [start, end)
Capture1(type, s, start, end) ==
    CASE type = "code"     -> Substring(s, start + 1, end - 1)
      [] type = "link"     -> Substring(s, start + 1, LinkTextEnd(s, start))
      [] type = "autolink" -> Substring(s, start, end)
      [] type = "bold"     -> Substring(s, start + 2, end - 2)
      [] type = "italic"   -> Substring(s, start + 1, end - 1)

Capture2(type, s, start, end) ==
    IF type = "link" THEN Substring(s, LinkTextEnd(s, start) + 2, end - 1) ELSE Undefined

\* while ((match = regex.exec(text)) !== null) matches.push({...}), from lastIndex:
\* exec finds the match at the least offset >= lastIndex and sets lastIndex to its end
RECURSIVE ExecAll(_, _, _)
ExecAll(type, s, lastIndex) ==
    LET at == {i \in lastIndex..Len(s) : PatternEnd(type, s, i) # -1}
    IN  IF at = {} THEN <<>>
        ELSE LET i == SetMin(at)
                 e == PatternEnd(type, s, i)
             IN  <<[type    |-> type,
                    start   |-> i,
                    end     |-> e,
                    content |-> Capture1(type, s, i, e),
                    url     |-> Capture2(type, s, i, e)]>>
                 \o ExecAll(type, s, e)

\* patterns.forEach(...): every match of every pattern, in pattern order
FindMatches(s) == Concat([k \in 1..Len(patterns) |-> ExecAll(patterns[k], s, 0)])

\* matches.sort((a, b) => a.start - b.start): Array.prototype.sort is stable
RECURSIVE InsertSorted(_, _)
InsertSorted(sorted, m) ==
    IF sorted = <<>> THEN <<m>>
    ELSE IF sorted[Len(sorted)].start <= m.start THEN Append(sorted, m)
    ELSE Append(InsertSorted(SubSeq(sorted, 1, Len(sorted) - 1), m), sorted[Len(sorted)])

RECURSIVE SortByStart(_)
SortByStart(ms) ==
    IF ms = <<>> THEN <<>>
    ELSE InsertSorted(SortByStart(SubSeq(ms, 1, Len(ms) - 1)), ms[Len(ms)])

\* the sweep: a match is kept when it starts at or after the end of the last kept one
RECURSIVE Sweep(_, _, _)
Sweep(ms, k, lastEnd) ==
    IF k > Len(ms) THEN <<>>
    ELSE IF ms[k].start >= lastEnd
         THEN <<ms[k]>> \o Sweep(ms, k + 1, ms[k].end)
         ELSE Sweep(ms, k + 1, lastEnd)

\* faulty variant: no match is removed
KeepEveryMatch(ms) == ms

\* faulty variant: a match is kept when it starts at or after the START of the last kept one
RECURSIVE SweepFromStart(_, _, _)
SweepFromStart(ms, k, lastStart) ==
    IF k > Len(ms) THEN <<>>
    ELSE IF ms[k].start >= lastStart
         THEN <<ms[k]>> \o SweepFromStart(ms, k + 1, ms[k].start)
         ELSE SweepFromStart(ms, k + 1, lastStart)

CompareWithLastStart(ms) == SweepFromStart(ms, 1, 0)

RemoveOverlapping(ms) == Sweep(ms, 1, 0)

\* a string pushed to parts; start and end record where in the text it came from
PlainPart(s, a, b) ==
    [type |-> "text", content |-> Substring(s, a, b), url |-> Undefined,
     start |-> a, end |-> b]

\* validMatches.forEach(...): the text before each match, then the match's element
RECURSIVE BuildFrom(_, _, _, _)
BuildFrom(s, valid, k, currentIndex) ==
    IF k > Len(valid)
    THEN IF currentIndex < Len(s) THEN <<PlainPart(s, currentIndex, Len(s))>> ELSE <<>>
    ELSE (IF valid[k].start > currentIndex
          THEN <<PlainPart(s, currentIndex, valid[k].start)>> ELSE <<>>)
         \o <<valid[k]>>
         \o BuildFrom(s, valid, k + 1, valid[k].end)

\* faulty variant: the text after the last match is not pushed
BuildPartsWithoutRest(s, valid) ==
    LET ps == BuildFrom(s, valid, 1, 0)
    IN  IF ps # <<>> /\ ps[Len(ps)].type = "text" THEN SubSeq(ps, 1, Len(ps) - 1) ELSE ps

BuildParts(s, valid) == BuildFrom(s, valid, 1, 0)

\* the value returned: the one string, or the array of parts, or the text itself
InlineResult(s, ps) ==
    IF ps = <<>> THEN [isString |-> TRUE, str |-> s, parts |-> <<>>]
    ELSE IF Len(ps) = 1 /\ ps[1].type = "text"
         THEN [isString |-> TRUE, str |-> ps[1].content, parts |-> ps]
         ELSE [isString |-> FALSE, str |-> <<>>, parts |-> ps]

parseInlineMarkdown(s) ==
    IF s = <<>> THEN InlineResult(s, <<>>)
    ELSE InlineResult(s, BuildParts(s, RemoveOverlapping(SortByStart(FindMatches(s)))))

\* what a rendered inline result shows: the string, or the parts' contents in order
VisibleOf(r) ==
    IF r.isString THEN r.str ELSE Concat([k \in 1..Len(r.parts) |-> r.parts[k].content])


(***************************************************************************)
(* parseInlineMarkdown as a state machine: one action per phase of the     *)
(* function (find, sort, remove overlaps, build).                          *)
(***************************************************************************)

\* the pieces the explored inline texts are made of
InlineToks ==
    { <<"a">>, <<" ">>, <<"*">>, <<"*", "*">>, <<BT>>, <<"*", "a", "*">>,
      <<"[", "a", "]", "(", "b", ")">>,
      <<"h", "t", "t", "p", ":", "/", "/", "a">> }

InlineTexts == {Concat(ts) : ts \in SeqsUpTo(InlineToks, MaxToks)}

NoResult == [isString |-> FALSE, str |-> <<>>, parts |-> <<>>]

InlineIdle ==
    /\ itext = <<>>
    /\ ipc = "idle"
    /\ matches = <<>>
    /\ validMatches = <<>>
    /\ parts = <<>>
    /\ iresult = NoResult

\* if (!text || typeof text !== 'string') return text;
InlineReturnText ==
    /\ ipc = "start"
    /\ itext = <<>>
    /\ iresult' = InlineResult(itext, <<>>)
    /\ ipc' = "done"
    /\ UNCHANGED <<itext, matches, validMatches, parts>>

InlineFind ==
    /\ ipc = "start"
    /\ itext # <<>>
    /\ matches' = FindMatches(itext)
    /\ ipc' = "sort"
    /\ UNCHANGED <<itext, validMatches, parts, iresult>>

InlineSort ==
    /\ ipc = "sort"
    /\ matches' = SortByStart(matches)
    /\ ipc' = "sweep"
    /\ UNCHANGED <<itext, validMatches, parts, iresult>>

InlineSweep ==
    /\ ipc = "sweep"
    /\ validMatches' = RemoveOverlapping(matches)
    /\ ipc' = "build"
    /\ UNCHANGED <<itext, matches, parts, iresult>>

InlineBuild ==
    /\ ipc = "build"
    /\ parts' = BuildParts(itext, validMatches)
    /\ iresult' = InlineResult(itext, parts')
    /\ ipc' = "done"
    /\ UNCHANGED <<itext, matches, validMatches>>


(***************************************************************************)
(* A backtracking regular-expression matcher, for the table regex of the   *)
(* pre-pass.  Ends(r, s, i) lists the offsets at which a match of r that   *)
(* starts at offset i can end, in the order in which a backtracking        *)
(* matcher tries them (greedy quantifiers: longest first); the match the   *)
(* engine reports is the first one.  An offset is listed once: whether the *)
(* rest of a pattern matches from an offset does not depend on how the     *)
(* offset was reached.                                                     *)
(***************************************************************************)
In(S)      == [op |-> "in", set |-> S]
NotIn(S)   == [op |-> "notin", set |-> S]
Cat(items) == [op |-> "cat", items |-> items]
Plus(r)    == [op |-> "plus", sub |-> r]
Star(r)    == [op |-> "star", sub |-> r]
Opt(r)     == [op |-> "opt", sub |-> r]

\* s with every element that occurred earlier in it removed
RECURSIVE Dedup(_)
Dedup(s) ==
    IF s = <<>> THEN <<>>
    ELSE LET init == Dedup(SubSeq(s, 1, Len(s) - 1))
         IN  IF s[Len(s)] \in Range(init) THEN init ELSE Append(init, s[Len(s)])

RECURSIVE Ends(_, _, _)
RECURSIVE EndsCat(_, _, _, _)
RECURSIVE EndsFrom(_, _, _, _)
RECURSIVE EndsMore(_, _, _, _)

Ends(r, s, i) ==
    CASE r.op = "in"    -> IF i < Len(s) /\ s[i + 1] \in r.set THEN <<i + 1>> ELSE <<>>
      [] r.op = "notin" -> IF i < Len(s) /\ s[i + 1] \notin r.set THEN <<i + 1>> ELSE <<>>
      [] r.op = "cat"   -> EndsCat(r.items, 1, s, <<i>>)
      [] r.op = "plus"  -> Dedup(EndsMore(r, s, Ends(r.sub, s, i), 1))
      [] r.op = "star"  -> Dedup(EndsMore(Plus(r.sub), s, Ends(r.sub, s, i), 1) \o <<i>>)
      [] r.op = "opt"   -> Dedup(Ends(r.sub, s, i) \o <<i>>)

\* the ends of items[k..] started at each of `starts`, in order
EndsCat(items, k, s, starts) ==
    IF k > Len(items) THEN starts
    ELSE EndsCat(items, k + 1, s, Dedup(EndsFrom(items[k], s, starts, 1)))

EndsFrom(r, s, starts, n) ==
    IF n > Len(starts) THEN <<>>
    ELSE Ends(r, s, starts[n]) \o EndsFrom(r, s, starts, n + 1)

\* a greedy repetition: after one more iteration ends at e, first try yet another
EndsMore(plus, s, firsts, n) ==
    IF n > Len(firsts) THEN <<>>
    ELSE Ends(plus, s, firsts[n]) \o <<firsts[n]>> \o EndsMore(plus, s, firsts, n + 1)

\* the end of the match of r at offset i, -1 when r does not match there
MatchEnd(r, s, i) == LET es == Ends(r, s, i) IN IF es = <<>> THEN -1 ELSE es[1]

(***************************************************************************)
(* parseMarkdown: the table pre-pass.                                      *)
(***************************************************************************)

\* \|[^\n]+\|\s*
RowRe == <<In({"|"}), Plus(NotIn({NL})), In({"|"}), Star(In(Whitespace))>>

\* /(\|[^\n]+\|\s*\n\|[\s\-:|]+\|\s*\n(?:\|[^\n]+\|\s*\n?)+)/g
tableRegex ==
    Cat(RowRe \o <<In({NL})>>
        \o <<In({"|"}), Plus(In(Whitespace \cup {"-", ":", "|"})), In({"|"}),
             Star(In(Whitespace)), In({NL})>>
        \o <<Plus(Cat(RowRe \o <<Opt(In({NL}))>>))>>)

\* while ((match = tableRegex.exec(text)) !== null) matches.push({...})
RECURSIVE TableMatches(_, _)
TableMatches(s, lastIndex) ==
    LET at == {i \in lastIndex..Len(s) : MatchEnd(tableRegex, s, i) # -1}
    IN  IF at = {} THEN <<>>
        ELSE LET i == SetMin(at)
                 e == MatchEnd(tableRegex, s, i)
             IN  <<[fullMatch  |-> Substring(s, i, e),
                    index      |-> i,
                    tableBlock |-> Trim(Substring(s, i, e))]>>
                 \o TableMatches(s, e)

\* String(n) for n >= 0
DigitChar == <<"0", "1", "2", "3", "4", "5", "6", "7", "8", "9">>

RECURSIVE DecimalString(_)
DecimalString(n) ==
    IF n < 10 THEN <<DigitChar[n + 1]>>
    ELSE Append(DecimalString(n \div 10), DigitChar[(n % 10) + 1])

\* parseInt(digits, 10) for a non-empty string of digits
RECURSIVE ParseInt(_)
ParseInt(ds) ==
    IF ds = <<>> THEN 0
    ELSE 10 * ParseInt(SubSeq(ds, 1, Len(ds) - 1))
         + (CHOOSE d \in 0..9 : DigitChar[d + 1] = ds[Len(ds)])

PlaceholderPrefix ==
    <<"_", "_", "T", "A", "B", "L", "E", "_",
      "P", "L", "A", "C", "E", "H", "O", "L", "D", "E", "R", "_">>

\* `__TABLE_PLACEHOLDER_${i}__`
Placeholder(i) == PlaceholderPrefix \o DecimalString(i) \o <<"_", "_">>

\* for (let i = matches.length - 1; i >= 0; i--) ...: the text after the matches
\* ms[i..] (1-based) have been replaced, last match first
RECURSIVE ReplaceTables(_, _, _)
ReplaceTables(s, ms, i) ==
    IF i > Len(ms) THEN s
    ELSE LET later == ReplaceTables(s, ms, i + 1)
         IN  Substring(later, 0, ms[i].index)
             \o <<NL, NL>> \o Placeholder(i - 1) \o <<NL, NL>>
             \o SubstringFrom(later, ms[i].index + Len(ms[i].fullMatch))

\* tablePlaceholders, the array indexed from 0 (here from 1)
PlaceholdersOf(ms) ==
    [i \in 1..Len(ms) |-> [placeholder |-> Placeholder(i - 1),
                           tableBlock  |-> ms[i].tableBlock]]

\* text.replace(/\r\n/g, '\n').replace(/\r/g, '\n')
NormalizeLineEndings(s) ==
    LET IsCrOfCrLf(k) == s[k] = "\r" /\ k < Len(s) /\ s[k + 1] = NL
        kept == SelectSeq([k \in 1..Len(s) |-> k], LAMBDA k : ~IsCrOfCrLf(k))
    IN  [n \in 1..Len(kept) |-> IF s[kept[n]] = "\r" THEN NL ELSE s[kept[n]]]

\* s.split(/\n\n+/)
RECURSIVE SplitBlocks(_, _)
SplitBlocks(s, from) ==
    LET j == IndexOf(s, <<NL, NL>>, from)
    IN  IF j = -1 THEN <<s>>
        ELSE <<Substring(s, 0, j)>>
             \o SplitBlocks(SubstringFrom(s, FirstNotIn(s, j, {NL})), 0)


(***************************************************************************)
(* detectTable                                                             *)
(***************************************************************************)

\* s.split('|')
RECURSIVE SplitPipe(_)
SplitPipe(s) ==
    LET j == FirstIn(s, 0, {"|"})
    IN  IF j >= Len(s) THEN <<s>>
        ELSE <<Substring(s, 0, j)>> \o SplitPipe(SubstringFrom(s, j + 1))

TrimAll(ss) == [k \in 1..Len(ss) |-> Trim(ss[k])]

\* parseRow: the cells of a line, without the empty first and last cell
\* if (cells.length > 0 && cells[0] === '') cells.shift()
ShiftEmpty(cells) ==
    IF Len(cells) > 0 /\ cells[1] = <<>> THEN Tail(cells) ELSE cells

\* if (cells.length > 0 && cells[cells.length - 1] === '') cells.pop()
PopEmpty(cells) ==
    IF Len(cells) > 0 /\ cells[Len(cells)] = <<>>
    THEN SubSeq(cells, 1, Len(cells) - 1)
    ELSE cells

parseRow(line) ==
    IF ~Includes(Trim(line), "|") THEN <<>>
    ELSE PopEmpty(ShiftEmpty(TrimAll(SplitPipe(Trim(line)))))

AllIn(s, S) == \A k \in 1..Len(s) : s[k] \in S

\* separatorLine.match(/^\|[\s\-:|]+\|$/)
MatchesSeparatorRegex(line) ==
    /\ Len(line) >= 3
    /\ line[1] = "|"
    /\ line[Len(line)] = "|"
    /\ AllIn(SubSeq(line, 2, Len(line) - 1), Whitespace \cup {"-", ":", "|"})

hasSeparator(separatorLine) ==
    /\ Includes(separatorLine, "|")
    /\ \/ Includes(separatorLine, "-")
       \/ Includes(separatorLine, ":")
       \/ MatchesSeparatorRegex(separatorLine)

\* the least index (from 1) >= i of a line that holds a pipe, 0 when there is none
RECURSIVE TableStart(_, _)
TableStart(lines, i) ==
    IF i > Len(lines) THEN 0
    ELSE IF Includes(lines[i], "|") /\ Len(SplitPipe(lines[i])) >= 2 THEN i
    ELSE TableStart(lines, i + 1)

\* faulty variant: the row is pushed as it is
RowAsItIs(row, n) == row

\* row normalized to n cells: padded with '' or cut
NormalizeRow(row, n) ==
    IF Len(row) = n THEN row
    ELSE [k \in 1..n |-> IF k <= Len(row) THEN row[k] ELSE <<>>]

\* the loop over the data rows, from line i (from 1)
RECURSIVE DataRows(_, _, _)
\* the row of line i, then the rows after it; an empty row ends the loop
DataRowsWith(lines, i, n, row) ==
    IF Len(row) = 0 THEN <<>>
    ELSE <<NormalizeRow(row, n)>> \o DataRows(lines, i + 1, n)

DataRows(lines, i, n) ==
    IF i > Len(lines) THEN <<>>
    ELSE IF ~Includes(lines[i], "|") THEN <<>>
    ELSE IF AllIn(lines[i], Whitespace \cup {"-", ":", "|"}) /\ Includes(lines[i], "-")
         THEN <<>>
    ELSE DataRowsWith(lines, i, n, parseRow(lines[i]))

NoTable == [found |-> FALSE, headers |-> <<>>, rows |-> <<>>]

\* return rows.length > 0 ? { headers, rows } : null
TableOf(headers, rows) ==
    IF Len(rows) = 0 THEN NoTable
    ELSE [found |-> TRUE, headers |-> headers, rows |-> rows]

\* the header test, then the data rows from the line after the separator
TableUnder(lines, start, headers) ==
    IF Len(headers) = 0 \/ Len(headers) < 2 THEN NoTable
    ELSE TableOf(headers, DataRows(lines, start + 2, Len(headers)))

\* the table whose header row is line `start` (0: no line has a pipe)
TableAt(lines, start) ==
    IF start = 0 THEN NoTable
    ELSE IF start + 1 > Len(lines) THEN NoTable
    ELSE IF ~hasSeparator(lines[start + 1]) THEN NoTable
    ELSE TableUnder(lines, start, parseRow(lines[start]))

TableIn(lines) ==
    IF Len(lines) < 2 THEN NoTable
    ELSE TableAt(lines, TableStart(lines, 1))

detectTable(block) == TableIn(TrimAll(SplitLines(block)))

(***************************************************************************)
(* detectList.  The arrays of nodes that the code shares by reference are  *)
(* kept as one sequence of nodes, each naming its parent (0: the root      *)
(* array); a stack frame names the node whose children array it holds      *)
(* (0: root).                                                              *)
(***************************************************************************)

\* line.match(/^(\s*)/)[1].length
getIndent(line) == FirstNotIn(line, 0, Whitespace)

\* where /^(\s*)([-*+]|\d+([.)-]))\s+/ ends in line, -1 when it does not match
BulletEnd(line) ==
    LET a == getIndent(line)
        d == FirstNotIn(line, a, Digit)
        m == IF CharAt(line, a) \in {"-", "*", "+"} THEN a + 1
             ELSE IF d > a /\ CharAt(line, d) \in {".", ")", "-"} THEN d + 1
             ELSE -1
    IN  IF m # -1 /\ CharAt(line, m) \in Whitespace
        THEN FirstNotIn(line, m, Whitespace) ELSE -1

\* /^[-*+]\s+/.test(line)
isUnorderedLine(line) ==
    CharAt(line, 0) \in {"-", "*", "+"} /\ CharAt(line, 1) \in Whitespace

\* faulty variant: only "1." is an ordinal marker
isOrderedLineDotOnly(line) ==
    LET d == FirstNotIn(line, 0, Digit)
    IN  d > 0 /\ CharAt(line, d) = "." /\ CharAt(line, d + 1) \in Whitespace

\* /^\d+([.)-])\s+/.test(line)
isOrderedLine(line) ==
    LET d == FirstNotIn(line, 0, Digit)
    IN  d > 0 /\ CharAt(line, d) \in {".", ")", "-"} /\ CharAt(line, d + 1) \in Whitespace

parseItemText(line) == Trim(SubstringFrom(line, BulletEnd(line)))

\* faulty variant: the first node of the array is taken
FirstOf(nodes, owner) ==
    LET ks == {k \in 1..Len(nodes) : nodes[k].parent = owner}
    IN  IF ks = {} THEN 0 ELSE CHOOSE k \in ks : \A j \in ks : j >= k

\* the index of the last node of the array owned by `owner`, 0 when it is empty
LastOf(nodes, owner) ==
    LET ks == {k \in 1..Len(nodes) : nodes[k].parent = owner}
    IN  IF ks = {} THEN 0 ELSE CHOOSE k \in ks : \A j \in ks : j <= k

\* faulty variant: only one frame is popped
PopOnce(stack, indent) ==
    IF stack # <<>> /\ indent < stack[Len(stack)].indent
    THEN SubSeq(stack, 1, Len(stack) - 1)
    ELSE stack

\* while (stack.length > 0 && indent < stack[stack.length - 1].indent) stack.pop()
RECURSIVE PopDeeper(_, _)
PopDeeper(stack, indent) ==
    IF stack # <<>> /\ indent < stack[Len(stack)].indent
    THEN PopDeeper(SubSeq(stack, 1, Len(stack) - 1), indent)
    ELSE stack

\* faulty variant: the frame holds the children of the item being added
FrameOfNewItem(indent, parent, nodes) == [indent |-> indent, owner |-> Len(nodes) + 1]

\* { indent, nodeArray: parentArray }: the frame of a new nested level, its
\* array being the children of node `parent`
NewFrame(indent, parent, nodes) == [indent |-> indent, owner |-> parent]

\* one turn of lines.forEach: st is [nodes, stack, threw]; threw is set when
\* lastAtPrev is undefined at `lastAtPrev.children`, a TypeError that ends
\* detectList and its caller
ListStep(st, line) ==
    LET indent == getIndent(line)
    IN  IF st.threw THEN st
        ELSE IF BulletEnd(line) = -1
        THEN LET owner == IF st.stack # <<>> THEN st.stack[Len(st.stack)].owner ELSE 0
                 last  == LastOf(st.nodes, owner)
             IN  IF last = 0 THEN st
                 ELSE [st EXCEPT !.nodes[last].text =
                                   Trim(st.nodes[last].text \o <<" ">> \o Trim(line))]
        ELSE LET stack  == PopDeeper(st.stack, indent)
                 top    == stack[Len(stack)]
                 nested == stack # <<>> /\ indent > top.indent
                 lastAtPrev == LastOf(st.nodes, top.owner)
                 parent == IF stack = <<>> THEN 0
                           ELSE IF indent = top.indent THEN top.owner
                           ELSE IF indent > top.indent THEN lastAtPrev
                           ELSE 0
                 pushed == IF nested
                           THEN Append(stack, NewFrame(indent, parent, st.nodes))
                           ELSE stack
                 node   == [text |-> parseItemText(line), parent |-> parent,
                            indent |-> indent]
             IN  IF nested /\ lastAtPrev = 0
                 THEN [st EXCEPT !.threw = TRUE]
                 ELSE [nodes |-> Append(st.nodes, node),
                       stack |-> IF pushed = <<>>
                                 THEN <<[indent |-> indent, owner |-> 0]>>
                                 ELSE pushed,
                       threw |-> FALSE]

RECURSIVE ListFold(_, _, _)
ListFold(st, lines, i) ==
    IF i > Len(lines) THEN st
    ELSE ListFold(ListStep(st, lines[i]), lines, i + 1)

\* clean(root): the forest as nested {text, children}
RECURSIVE Nest(_, _, _)
Nest(nodes, owner, from) ==
    IF from > Len(nodes) THEN <<>>
    ELSE IF nodes[from].parent = owner
         THEN <<[text |-> nodes[from].text, children |-> Nest(nodes, from, from + 1)]>>
              \o Nest(nodes, owner, from + 1)
         ELSE Nest(nodes, owner, from + 1)

NotBlank(line) == Len(Trim(line)) > 0

NoList ==
    [found |-> FALSE, type |-> "none", items |-> <<>>, nodes |-> <<>>, threw |-> FALSE]

\* the result of detectList; threw says that it ended with a TypeError instead
\* return { type: isOrdered ? 'ordered' : 'unordered', items: clean(root) },
\* final being the state after lines.forEach
ListOf(firstLine, final) ==
    IF final.threw THEN [NoList EXCEPT !.threw = TRUE]
    ELSE [found |-> TRUE,
          type  |-> IF isOrderedLine(firstLine) THEN "ordered" ELSE "unordered",
          items |-> Nest(final.nodes, 0, 1),
          nodes |-> final.nodes,
          threw |-> FALSE]

ListIn(lines) ==
    IF Len(lines) = 0 THEN NoList
    ELSE IF ~isUnorderedLine(lines[1]) /\ ~isOrderedLine(lines[1]) THEN NoList
    ELSE ListOf(lines[1],
                ListFold([nodes |-> <<>>, stack |-> <<>>, threw |-> FALSE], lines, 1))

detectList(block) == ListIn(SelectSeq(SplitLines(block), NotBlank))


(***************************************************************************)
(* parseMarkdown: what blocks.forEach pushes for one block.  An element is *)
(* a record: its kind, its key (the key's name and index) and what it      *)
(* displays.                                                               *)
(***************************************************************************)

Fence == <<BT, BT, BT>>

\* faulty variant: the header is compared as it is written
RenderCellCaseSensitive(headers, cell, cellIdx) ==
    LET strengthValue    == toLowerCase(Trim(cell))
        isStrengthColumn == cellIdx <= Len(headers)
                            /\ IndexOf(headers[cellIdx],
                                       <<"s", "t", "r", "e", "n", "g", "t", "h">>, 0) # -1
        badge == /\ isStrengthColumn
                 /\ strengthValue \in { <<"s", "t", "r", "o", "n", "g">>,
                                        <<"w", "e", "a", "k">>,
                                        <<"a", "v", "e", "r", "a", "g", "e">> }
    IN  [badge |-> badge, content |-> parseInlineMarkdown(Trim(cell))]

\* a cell of a table that came through a placeholder (lines 123-190): a badge
\* holding cell.trim() when isStrengthColumn && badgeStyle, else the cell's
\* inline content
RenderPlaceholderCell(headers, cell, cellIdx) ==
    LET strengthValue    == toLowerCase(Trim(cell))
        isStrengthColumn == cellIdx <= Len(headers)
                            /\ IndexOf(toLowerCase(headers[cellIdx]),
                                       <<"s", "t", "r", "e", "n", "g", "t", "h">>, 0) # -1
        badgeStyle == IF ~isStrengthColumn THEN "null"
                      ELSE IF strengthValue = <<"s", "t", "r", "o", "n", "g">> THEN "green"
                      ELSE IF strengthValue = <<"w", "e", "a", "k">> THEN "red"
                      ELSE IF strengthValue = <<"a", "v", "e", "r", "a", "g", "e">>
                           THEN "amber"
                      ELSE "null"
    IN  [badge   |-> isStrengthColumn /\ badgeStyle # "null",
         content |-> parseInlineMarkdown(Trim(cell))]

\* a cell of a table detected in a block (lines 424-502): a badge holding
\* cell.trim(), or the cell's inline content
RenderCell(headers, cell, cellIdx) ==
    LET strengthValue    == toLowerCase(Trim(cell))
        isStrengthColumn == cellIdx <= Len(headers)
                            /\ IndexOf(toLowerCase(headers[cellIdx]),
                                       <<"s", "t", "r", "e", "n", "g", "t", "h">>, 0) # -1
        badge == /\ isStrengthColumn
                 /\ strengthValue \in { <<"s", "t", "r", "o", "n", "g">>,
                                        <<"w", "e", "a", "k">>,
                                        <<"a", "v", "e", "r", "a", "g", "e">> }
    IN  [badge |-> badge, content |-> parseInlineMarkdown(Trim(cell))]

TableElement(name, idx, t) ==
    [kind    |-> "table",
     key     |-> <<name, idx>>,
     headers |-> t.headers,
     rows    |-> t.rows,
     th      |-> [h \in 1..Len(t.headers) |-> parseInlineMarkdown(Trim(t.headers[h]))],
     td      |-> [r \in 1..Len(t.rows) |->
                    [c \in 1..Len(t.rows[r]) |->
                        IF name = "table-placeholder"
                        THEN RenderPlaceholderCell(t.headers, t.rows[r][c], c)
                        ELSE RenderCell(t.headers, t.rows[r][c], c)]]]

\* renderItems: each node's text through parseInlineMarkdown
RECURSIVE renderItems(_)
renderItems(nodes) ==
    [k \in 1..Len(nodes) |->
        [li       |-> parseInlineMarkdown(Trim(nodes[k].text)),
         children |-> renderItems(nodes[k].children)]]

ListElement(name, idx, l) ==
    [kind |-> "list", key |-> <<name, idx>>, type |-> l.type,
     items |-> l.items, lis |-> renderItems(l.items)]

\* the paragraph of a block's non-blank lines; nothing when it has none
ParagraphElements(name, idx, block) ==
    LET lines == SelectSeq(SplitLines(block), NotBlank)
    IN  IF Len(lines) > 0
        THEN <<[kind  |-> "para", key |-> <<name, idx>>,
                lines |-> [k \in 1..Len(lines) |-> parseInlineMarkdown(lines[k])]]>>
        ELSE <<>>

\* trimmedBlock.match(/^__TABLE_PLACEHOLDER_(\d+)__$/)
IsPlaceholderBlock(tb) ==
    LET n == Len(PlaceholderPrefix)
    IN  /\ Len(tb) >= n + 3
        /\ SubSeq(tb, 1, n) = PlaceholderPrefix
        /\ SubSeq(tb, Len(tb) - 1, Len(tb)) = <<"_", "_">>
        /\ AllIn(SubSeq(tb, n + 1, Len(tb) - 2), Digit)

placeholderIdx(tb) == ParseInt(SubSeq(tb, Len(PlaceholderPrefix) + 1, Len(tb) - 2))

\* const tableMatch = detectTable(tableData.tableBlock): a table, or nothing
PlaceholderTable(idx, tableMatch) ==
    IF tableMatch.found
    THEN <<TableElement("table-placeholder", idx, tableMatch)>>
    ELSE <<>>

RenderPlaceholder(tb, placeholders) ==
    LET idx == placeholderIdx(tb)
    IN  IF idx + 1 \in DOMAIN placeholders
        THEN PlaceholderTable(idx, detectTable(placeholders[idx + 1].tableBlock))
        ELSE <<>>

firstLineOf(tb) == Trim(SplitLines(tb)[1])

\* faulty variant: every header is of level 1
HeaderLevelOne(firstLine) == IF CharAt(firstLine, 0) = "#" THEN 1 ELSE 0

\* firstLine.match(/^(#{1,6})\s*(.+)$/): the length of group 1, 0 when there is
\* no match.  A line of up to six "#" and nothing else gives its last "#" to (.+).
HeaderLevel(firstLine) ==
    LET n == FirstNotIn(firstLine, 0, {"#"})
    IN  IF n = 0 THEN 0
        ELSE IF Len(firstLine) > Min(n, 6) THEN Min(n, 6)
        ELSE n - 1

headerText(firstLine) ==
    LET level == HeaderLevel(firstLine)
        rest  == SubstringFrom(firstLine, level)
    IN  SubstringFrom(rest, Min(FirstNotIn(rest, 0, Whitespace), Len(rest) - 1))

IsHeaderBlock(tb) == HeaderLevel(firstLineOf(tb)) > 0

\* what follows the header: a list if detectList finds one, else paragraphs
AfterHeader(blockIdx0, rest, nestedList) ==
    IF nestedList.found
    THEN <<ListElement("list-after-header", blockIdx0, nestedList)>>
    ELSE ParagraphElements("para-after-header", blockIdx0, rest)

RenderHeader(tb, blockIdx0) ==
    LET firstLine    == firstLineOf(tb)
        newlineIndex == IndexOf(tb, <<NL>>, 0)
        rest         == Trim(SubstringFrom(tb, newlineIndex + 1))
    IN  <<[kind     |-> "header",
           key      |-> <<"header", blockIdx0>>,
           level    |-> HeaderLevel(firstLine),
           children |-> parseInlineMarkdown(headerText(firstLine))]>>
        \o (IF newlineIndex # -1 /\ rest # <<>>
            THEN AfterHeader(blockIdx0, rest, detectList(rest))
            ELSE <<>>)

\* faulty variant: the closing fence is not looked for
StartsWithFence(tb) == StartsWithAt(tb, Fence, 0)

\* trimmedBlock.startsWith('```') with a second '```' after it
IsClosedFence(tb) == StartsWithAt(tb, Fence, 0) /\ IndexOf(tb, Fence, 3) # -1

RenderCode(tb, blockIdx0) ==
    LET codeBlock == Substring(tb, 3, IndexOf(tb, Fence, 3))
        lines     == SplitLines(codeBlock)
        hasLang   == lines[1] # <<>> /\ AllIn(lines[1], WordChar)
    IN  <<[kind     |-> "code",
           key      |-> <<"code", blockIdx0>>,
           language |-> IF hasLang THEN lines[1] ELSE <<>>,
           hasLang  |-> hasLang,
           content  |-> IF hasLang THEN Trim(Join(Tail(lines), <<NL>>))
                        ELSE Trim(codeBlock)]>>

\* trimmedBlock.match(/^[-*_]{3,}$/)
IsRule(tb) == Len(tb) >= 3 /\ AllIn(tb, {"-", "*", "_"})

IsQuote(tb) == StartsWithAt(tb, <<">">>, 0)

\* line.replace(/^>\s?/, '')
StripQuote(line) ==
    IF CharAt(line, 0) # ">" THEN line
    ELSE IF CharAt(line, 1) \in Whitespace THEN SubstringFrom(line, 2)
    ELSE SubstringFrom(line, 1)

RenderQuote(tb, blockIdx0) ==
    LET lines == SplitLines(tb)
    IN  <<[kind     |-> "quote",
           key      |-> <<"quote", blockIdx0>>,
           children |-> parseInlineMarkdown(
                            Join([k \in 1..Len(lines) |-> StripQuote(lines[k])], <<NL>>))]>>

\* the body of blocks.forEach for one block ends with a TypeError: detectList
\* is the one callee that can throw, called on the lines under a header and on a
\* block that is no placeholder, header, fence, rule, quote or table
BlockThrows(block, blockIdx0, placeholders) ==
    LET tb   == Trim(block)
        rest == Trim(SubstringFrom(tb, IndexOf(tb, <<NL>>, 0) + 1))
    IN  IF tb = <<>> THEN FALSE
        ELSE IF IsPlaceholderBlock(tb) THEN FALSE
        ELSE IF IsHeaderBlock(tb)
             THEN IndexOf(tb, <<NL>>, 0) # -1 /\ rest # <<>> /\ detectList(rest).threw
        ELSE IF IsClosedFence(tb) \/ IsRule(tb) \/ IsQuote(tb) THEN FALSE
        ELSE IF detectTable(tb).found THEN FALSE
        ELSE detectList(tb).threw

\* faulty variant: the list classifier runs before the table classifier
RenderBlockListBeforeTable(block, blockIdx0, placeholders) ==
    LET tb == Trim(block)
    IN  IF tb = <<>> THEN <<>>
        ELSE IF IsPlaceholderBlock(tb) THEN RenderPlaceholder(tb, placeholders)
        ELSE IF IsHeaderBlock(tb) THEN RenderHeader(tb, blockIdx0)
        ELSE IF IsClosedFence(tb) THEN RenderCode(tb, blockIdx0)
        ELSE IF IsRule(tb) THEN <<[kind |-> "hr", key |-> <<"hr", blockIdx0>>]>>
        ELSE IF IsQuote(tb) THEN RenderQuote(tb, blockIdx0)
        ELSE IF detectList(tb).found
             THEN <<ListElement("list", blockIdx0, detectList(tb))>>
        ELSE IF detectTable(tb).found
             THEN <<TableElement("table", blockIdx0, detectTable(tb))>>
        ELSE ParagraphElements("para", blockIdx0, tb)

\* const listMatch = detectList(trimmedBlock): a list, or else paragraphs
ListOrParagraph(tb, blockIdx0, listMatch) ==
    IF listMatch.found
    THEN <<ListElement("list", blockIdx0, listMatch)>>
    ELSE ParagraphElements("para", blockIdx0, tb)

\* const tableMatch = detectTable(trimmedBlock): a table, or else the later
\* classifiers
TableOrLater(tb, blockIdx0, tableMatch) ==
    IF tableMatch.found
    THEN <<TableElement("table", blockIdx0, tableMatch)>>
    ELSE ListOrParagraph(tb, blockIdx0, detectList(tb))

\* the body of blocks.forEach for one block: the elements it pushes
RenderBlock(block, blockIdx0, placeholders) ==
    LET tb == Trim(block)
    IN  IF tb = <<>> THEN <<>>
        ELSE IF IsPlaceholderBlock(tb) THEN RenderPlaceholder(tb, placeholders)
        ELSE IF IsHeaderBlock(tb) THEN RenderHeader(tb, blockIdx0)
        ELSE IF IsClosedFence(tb) THEN RenderCode(tb, blockIdx0)
        ELSE IF IsRule(tb) THEN <<[kind |-> "hr", key |-> <<"hr", blockIdx0>>]>>
        ELSE IF IsQuote(tb) THEN RenderQuote(tb, blockIdx0)
        ELSE TableOrLater(tb, blockIdx0, detectTable(tb))


(***************************************************************************)
(* parseMarkdown as a state machine: the pre-pass, the split, one step per *)
(* block of blocks.forEach, the return.                                    *)
(***************************************************************************)

\* the pieces the explored documents are made of: a document is its chunks
\* joined by newlines
ChunkText(c) ==
    CASE c = "blank"    -> <<>>
      [] c = "table"    -> <<"|", " ", "A", " ", "|", " ", "B", " ", "|", NL,
                             "|", " ", "-", " ", "|", " ", "-", " ", "|", NL,
                             "|", " ", "1", " ", "|", " ", "2", " ", "|">>
      [] c = "para"     -> <<"p">>
      [] c = "header"   -> <<"#", "#", " ", "h">>
      [] c = "bullet"   -> <<"-", " ", "i">>
      [] c = "quote"    -> <<">", " ", "q">>
      [] c = "rule"     -> <<"-", "-", "-">>
      [] c = "fence"    -> Fence
      [] c = "table1"   -> <<"|", "C", "|", NL, "|", "-", "|", NL, "|", "3", "|">>
      [] c = "tablebad" -> <<"|", "D", "|", "E", "|", NL,
                             "|", "x", "-", "y", "|", "z", "|", NL,
                             "|", "4", "|", "5", "|">>

Chunks ==
    {"blank", "table", "para", "header", "bullet", "quote", "rule", "fence",
     "table1", "tablebad"}

DocText(d) == Join([k \in 1..Len(d) |-> ChunkText(d[k])], <<NL>>)

ListIdle ==
    /\ lblock = <<>>
    /\ lpc = "idle"
    /\ lresult = NoList

StorageIdle ==
    /\ stored = <<>>
    /\ added = <<>>
    /\ sclock = 0
    /\ outcome = "none"

HookIdle ==
    /\ isLoading = FALSE
    /\ isStreaming = FALSE
    /\ isProcessing = FALSE
    /\ summarizedText = ""
    /\ additionalContext = ""
    /\ error = FALSE
    /\ inFlight = <<>>
    /\ extracting = FALSE
    /\ handled = "none"
    /\ messages = <<>>
    /\ streamingText = <<>>
    /\ uploadedFileName = ""
    /\ processingStage = ""
    /\ summarizing = <<>>
    /\ sent = 0

CallIdle ==
    /\ called = <<>>
    /\ returned = <<>>

StreamIdle ==
    /\ body = <<>>
    /\ readPos = 0
    /\ buffer = <<>>
    /\ fullText = <<>>
    /\ chunks = <<>>
    /\ spc = "idle"
    /\ cut = FALSE

SvcIdle == CallIdle /\ StreamIdle

MoreIdle == ListIdle /\ StorageIdle /\ HookIdle /\ SvcIdle

MarkdownIdle ==
    /\ doc = <<>>
    /\ text = <<>>
    /\ pc = "idle"
    /\ processedText = <<>>
    /\ tablePlaceholders = <<>>
    /\ blocks = <<>>
    /\ blockIdx = 0
    /\ elements = <<>>

TableIdle ==
    /\ tblock = <<>>
    /\ tpc = "idle"
    /\ tresult = NoTable

\* if (!text) return [];
ReturnEmpty ==
    /\ pc = "start"
    /\ text = <<>>
    /\ pc' = "done"
    /\ UNCHANGED <<doc, text, processedText, tablePlaceholders, blocks, blockIdx, elements>>

\* lines 16-43: normalize the line endings, put a placeholder for every table match
ExtractTables ==
    /\ pc = "start"
    /\ text # <<>>
    /\ LET normalized == NormalizeLineEndings(text)
           ms         == TableMatches(normalized, 0)
       IN  /\ text' = normalized
           /\ tablePlaceholders' = PlaceholdersOf(ms)
           /\ processedText' = ReplaceTables(normalized, ms, 1)
    /\ pc' = "split"
    /\ UNCHANGED <<doc, blocks, blockIdx, elements>>

\* const blocks = processedText.split(/\n\n+/)
SplitIntoBlocks ==
    /\ pc = "split"
    /\ blocks' = SplitBlocks(processedText, 0)
    /\ blockIdx' = 0
    /\ pc' = "blocks"
    /\ UNCHANGED <<doc, text, processedText, tablePlaceholders, elements>>

\* one turn of blocks.forEach; an exception leaves forEach and parseMarkdown
ProcessBlock ==
    /\ pc = "blocks"
    /\ blockIdx < Len(blocks)
    /\ IF BlockThrows(blocks[blockIdx + 1], blockIdx, tablePlaceholders)
       THEN /\ pc' = "threw"
            /\ UNCHANGED <<elements, blockIdx>>
       ELSE /\ elements' = elements
                    \o RenderBlock(blocks[blockIdx + 1], blockIdx, tablePlaceholders)
            /\ blockIdx' = blockIdx + 1
            /\ pc' = pc
    /\ UNCHANGED <<doc, text, processedText, tablePlaceholders, blocks>>

\* return elements
ReturnElements ==
    /\ pc = "blocks"
    /\ blockIdx = Len(blocks)
    /\ pc' = "done"
    /\ UNCHANGED <<doc, text, processedText, tablePlaceholders, blocks, blockIdx, elements>>

Init ==
    /\ doc \in SeqsUpTo(Chunks, MaxChunks)
    /\ text = DocText(doc)
    /\ pc = "start"
    /\ processedText = <<>>
    /\ tablePlaceholders = <<>>
    /\ blocks = <<>>
    /\ blockIdx = 0
    /\ elements = <<>>
    /\ InlineIdle
    /\ TableIdle
    /\ MoreIdle

Next ==
    \/ (ReturnEmpty /\ UNCHANGED <<inlVars, tblVars, moreVars>>)
    \/ (ExtractTables /\ UNCHANGED <<inlVars, tblVars, moreVars>>)
    \/ (SplitIntoBlocks /\ UNCHANGED <<inlVars, tblVars, moreVars>>)
    \/ (ProcessBlock /\ UNCHANGED <<inlVars, tblVars, moreVars>>)
    \/ (ReturnElements /\ UNCHANGED <<inlVars, tblVars, moreVars>>)

Spec == Init /\ [][Next]_vars

(***************************************************************************)
(* parseInlineMarkdown on its own.                                         *)
(***************************************************************************)
InitInline ==
    /\ itext \in InlineTexts
    /\ ipc = "start"
    /\ matches = <<>>
    /\ validMatches = <<>>
    /\ parts = <<>>
    /\ iresult = NoResult
    /\ MarkdownIdle
    /\ TableIdle
    /\ MoreIdle

NextInline ==
    \/ (InlineReturnText /\ UNCHANGED <<mdVars, tblVars, moreVars>>)
    \/ (InlineFind /\ UNCHANGED <<mdVars, tblVars, moreVars>>)
    \/ (InlineSort /\ UNCHANGED <<mdVars, tblVars, moreVars>>)
    \/ (InlineSweep /\ UNCHANGED <<mdVars, tblVars, moreVars>>)
    \/ (InlineBuild /\ UNCHANGED <<mdVars, tblVars, moreVars>>)

SpecInline == InitInline /\ [][NextInline]_vars

(***************************************************************************)
(* detectTable on its own, on blocks made of table-like lines.             *)
(***************************************************************************)
TableLines ==
    { <<"|", "A", "|", "B", "|">>,
      <<"|", "-", "|", "-", "|">>,
      <<"|", "1", "|", "2", "|">>,
      <<"|", "1", "|">>,
      <<"|", "1", "|", "2", "|", "3", "|">>,
      <<"|", "x", "-", "y", "|", "z", "|">>,
      <<"1", " ", "|", " ", "2">>,
      <<"p">> }

TableBlocks == {Join(ls, <<NL>>) : ls \in SeqsUpTo(TableLines, MaxRows)}

DetectTableCall ==
    /\ tpc = "start"
    /\ tresult' = detectTable(tblock)
    /\ tpc' = "done"
    /\ UNCHANGED tblock

InitTable ==
    /\ tblock \in TableBlocks
    /\ tpc = "start"
    /\ tresult = NoTable
    /\ MarkdownIdle
    /\ InlineIdle
    /\ MoreIdle

NextTable == DetectTableCall /\ UNCHANGED <<mdVars, inlVars, moreVars>>

SpecTable == InitTable /\ [][NextTable]_vars


(***************************************************************************)
(* parseMarkdown on documents made of single lines: unterminated fences,   *)
(* tables without outer pipes, headers with a remainder, indented bullets, *)
(* the literal text of a placeholder.                                      *)
(***************************************************************************)
MarkdownLines ==
    { <<>>,
      <<BT, BT, BT, "a", "|", "b">>,
      <<"c">>,
      <<"a", "|", "b">>,
      <<"-", "|", "-">>,
      <<"#", "#", " ", "T">>,
      <<"#", "#", "#", "T">>,
      <<"-", " ", "x">>,
      <<" ", " ", "-", " ", "y">>,
      <<" ", " ", " ", " ", "1", ")", " ", "z">>,
      Placeholder(0) }

InitLines ==
    /\ doc \in SeqsUpTo(MarkdownLines, MaxLines)
    /\ text = Join(doc, <<NL>>)
    /\ pc = "start"
    /\ processedText = <<>>
    /\ tablePlaceholders = <<>>
    /\ blocks = <<>>
    /\ blockIdx = 0
    /\ elements = <<>>
    /\ InlineIdle
    /\ TableIdle
    /\ MoreIdle

SpecLines == InitLines /\ [][Next]_vars

(***************************************************************************)
(* detectList on its own, on the trimmed blocks that parseMarkdown hands   *)
(* it: bullet lines at several indentations, ordinal markers, continuation *)
(* lines.                                                                  *)
(***************************************************************************)
ListLines ==
    { <<"-", " ", "a">>,
      <<" ", " ", "-", " ", "b">>,
      <<" ", " ", " ", " ", "*", " ", "c">>,
      <<"1", ".", " ", "d">>,
      <<" ", " ", " ", "2", ")", " ", "e">>,
      <<" ", "t">>,
      <<>> }

ListBlocks == {Trim(Join(ls, <<NL>>)) : ls \in SeqsUpTo(ListLines, MaxListLines)}

DetectListCall ==
    /\ lpc = "start"
    /\ lresult' = detectList(lblock)
    /\ lpc' = "done"
    /\ UNCHANGED lblock

InitList ==
    /\ lblock \in ListBlocks
    /\ lpc = "start"
    /\ lresult = NoList
    /\ MarkdownIdle
    /\ InlineIdle
    /\ TableIdle
    /\ StorageIdle
    /\ HookIdle
    /\ SvcIdle

NextList == DetectListCall /\ UNCHANGED <<mdVars, inlVars, tblVars, stoVars, hookVars, svcVars>>

SpecList == InitList /\ [][NextList]_vars

(***************************************************************************)
(* parseMarkdown on one table of two columns, "Skill" and a second one: the *)
(* table is written with outer pipes, which the pre-pass extracts, or      *)
(* without, which only detectTable sees.                                   *)
(***************************************************************************)
CellHeaders ==
    { <<"S", "t", "r", "e", "n", "g", "t", "h">>,
      <<"s", "t", "r", "e", "n", "g", "t", "h">>,
      <<"a", " ", "S", "T", "R", "E", "N", "G", "T", "H">>,
      <<"S", "t", "r", "o", "n", "g">>,
      <<"S", "k", "i", "l", "l">> }

CellValues ==
    { <<"s", "t", "r", "o", "n", "g">>,
      <<"S", "t", "r", "o", "n", "g">>,
      <<" ", "W", "E", "A", "K", " ">>,
      <<"w", "e", "a", "k">>,
      <<"a", "v", "e", "r", "a", "g", "e">>,
      <<"a", "v", "g">>,
      <<"s", "t", "r", "o", "n", "g", "l", "y">>,
      <<"*", "w", "e", "a", "k", "*">> }

\* the table: header row, separator row, one data row whose first cell is
\* "weak"; the style "empty" is the empty text
CellTableText(style, header, value) ==
    LET edge == IF style = "piped" THEN <<"|">> ELSE <<>>
    IN  IF style = "empty" THEN <<>>
        ELSE
        edge \o <<"S", "k", "i", "l", "l", "|">> \o header \o edge \o <<NL>>
        \o edge \o <<"-", "|", "-">> \o edge \o <<NL>>
        \o edge \o <<"w", "e", "a", "k", "|">> \o value \o edge

InitCells ==
    /\ doc \in ({"piped", "bare"} \X CellHeaders \X CellValues)
                \cup { <<"empty", <<>>, <<>> >> }
    /\ text = CellTableText(doc[1], doc[2], doc[3])
    /\ pc = "start"
    /\ processedText = <<>>
    /\ tablePlaceholders = <<>>
    /\ blocks = <<>>
    /\ blockIdx = 0
    /\ elements = <<>>
    /\ InlineIdle
    /\ TableIdle
    /\ MoreIdle

SpecCells == InitCells /\ [][Next]_vars

(***************************************************************************)
(* The session storage service (src/src/services/session-storage.js).      *)
(* sessionStorage holds strings: JSON.stringify writes the history as the  *)
(* tuple <<"json", messages, lastUpdated>>, each message as the tuple      *)
(* <<role, content, timestamp>>, and JSON.parse reads it back.  The empty  *)
(* tuple stands for no item under STORAGE_KEY, <<"corrupt">> for an item   *)
(* that JSON.parse rejects.                                                *)
(***************************************************************************)
MAX_MESSAGES == 5

JSONstringify(history) ==
    << "json",
       [i \in 1..Len(history.messages) |->
           << history.messages[i].role, history.messages[i].content,
              history.messages[i].timestamp >>],
       history.lastUpdated >>

JSONparse(item) ==
    [messages    |-> [i \in 1..Len(item[2]) |->
                        [role |-> item[2][i][1], content |-> item[2][i][2],
                         timestamp |-> item[2][i][3]]],
     lastUpdated |-> item[3]]

\* getHistory(): the stored history, or an empty one when nothing is stored
\* or when reading it threw
getHistory(item, now) ==
    IF item # <<>> /\ item[1] = "json"
    THEN JSONparse(item)
    ELSE [messages |-> <<>>, lastUpdated |-> now]

\* faulty variant: the first MAX_MESSAGES messages are kept
KeepFirstMessages(list) ==
    IF Len(list) > MAX_MESSAGES
    THEN SubSeq(list, 1, MAX_MESSAGES)
    ELSE list

\* if (length > MAX_MESSAGES) messages = messages.slice(-MAX_MESSAGES)
KeepLastMessages(list) ==
    IF Len(list) > MAX_MESSAGES
    THEN SubSeq(list, Len(list) - MAX_MESSAGES + 1, Len(list))
    ELSE list

\* the history addMessage writes: the stored one with the new message pushed
HistoryWith(item, role, content, now) ==
    LET history    == getHistory(item, now)
        newMessage == [role |-> role, content |-> Trim(content), timestamp |-> now]
    IN  [messages    |-> KeepLastMessages(Append(history.messages, newMessage)),
         lastUpdated |-> now]

\* the roles and contents addMessage is called with; "" is the missing argument
Roles == {"user", "assistant", "system", ""}

Contents == { <<>>, <<" ", "b", " ">>, <<" ">> }

\* faulty variant: only the missing arguments make addMessage throw
ThrowsOnMissingOnly(role, content) ==
    \/ role = ""
    \/ content = <<>>

\* !role || !content, and the role test: addMessage throws before its try
AddMessageThrows(role, content) ==
    \/ role = ""
    \/ content = <<>>
    \/ (role # "user" /\ role # "assistant")

\* what sessionStorage does during a call: it works, or setItem throws
\* (quota exceeded), or every access to it throws (storage disabled)
Failures == {"none", "setItem", "storage"}

\* addMessage(role, content) on the stored item: how the call ends and the
\* item it leaves.  getHistory swallows a getItem that throws, and the catch
\* of addMessage swallows a setItem that throws.
addMessage(item, role, content, failure, now) ==
    IF AddMessageThrows(role, content)
    THEN [outcome |-> "threw", stored |-> item]
    ELSE IF failure # "none"
         THEN [outcome |-> "caught", stored |-> item]
         ELSE [outcome |-> "stored",
               stored  |-> JSONstringify(HistoryWith(item, role, content, now))]

\* Array.prototype.slice(start): a negative start counts from the end, and
\* -0 is 0
SliceFrom(array, start) ==
    LET from == IF start < 0 THEN Max(Len(array) + start, 0) ELSE Min(start, Len(array))
    IN  SubSeq(array, from + 1, Len(array))

\* getMessagesForAPI(count): history.messages.slice(-count), mapped to role
\* and content
getMessagesForAPI(item, count, now) ==
    LET last == SliceFrom(getHistory(item, now).messages, 0 - count)
    IN  [i \in 1..Len(last) |->
            [role |-> last[i].role, content |-> last[i].content]]

AddMessageEnds(role, content, call) ==
    /\ call.outcome = "stored" => sclock < MaxAdds
    /\ outcome' = call.outcome
    /\ stored' = call.stored
    /\ sclock' = IF call.outcome = "stored" THEN sclock + 1 ELSE sclock
    /\ added' = IF call.outcome = "stored"
                THEN Append(added, <<role, content, sclock + 1>>)
                ELSE added

\* addMessage(role, content), with Date.now() read as the number of the
\* stored message
AddMessage ==
    \E role \in Roles, content \in Contents, failure \in Failures :
        AddMessageEnds(role, content, addMessage(stored, role, content, failure, sclock + 1))

\* clearHistory(): removeItem
ClearHistory ==
    /\ stored' = <<>>
    /\ added' = <<>>
    /\ outcome' = "cleared"
    /\ UNCHANGED sclock

InitStorage ==
    /\ StorageIdle
    /\ MarkdownIdle
    /\ InlineIdle
    /\ TableIdle
    /\ ListIdle
    /\ HookIdle
    /\ SvcIdle

NextStorage ==
    \/ AddMessage /\ UNCHANGED <<mdVars, inlVars, tblVars, lstVars, hookVars, svcVars>>
    \/ ClearHistory /\ UNCHANGED <<mdVars, inlVars, tblVars, lstVars, hookVars, svcVars>>

SpecStorage == InitStorage /\ [][NextStorage]_vars

(***************************************************************************)
(* One call of getMessagesForAPI or of addMessage on each history that the *)
(* storage can hold: up to MAX_MESSAGES messages, no item, a corrupt item. *)
(***************************************************************************)
MaxCount == 7

StoredMessage == { <<"user", <<"b">>>>, <<"assistant", <<"b">>>>, <<"user", <<>>>> }

StoredItem(ms) ==
    JSONstringify([messages    |-> [i \in 1..Len(ms) |->
                                       [role |-> ms[i][1], content |-> ms[i][2],
                                        timestamp |-> i]],
                   lastUpdated |-> Len(ms)])

StoredItems ==
    {StoredItem(ms) : ms \in SeqsUpTo(StoredMessage, MAX_MESSAGES) \ {<<>>}}
        \cup {<<>>, <<"corrupt">>}

CallGetMessagesForAPI ==
    /\ called = <<>>
    /\ \E count \in 0..MaxCount :
          /\ called' = <<"getMessagesForAPI", count>>
          /\ returned' = getMessagesForAPI(stored, count, sclock + 1)
    /\ UNCHANGED stoVars

CallAddMessage ==
    /\ called = <<>>
    /\ \E role \in Roles, content \in Contents, failure \in Failures :
          /\ called' = <<"addMessage", role, content, failure, stored>>
          /\ returned' = addMessage(stored, role, content, failure, sclock + 1).outcome
          /\ stored' = addMessage(stored, role, content, failure, sclock + 1).stored
    /\ UNCHANGED <<added, sclock, outcome>>

InitCalls ==
    /\ stored \in StoredItems
    /\ added = <<>>
    /\ sclock = MAX_MESSAGES
    /\ outcome = "none"
    /\ CallIdle
    /\ StreamIdle
    /\ MarkdownIdle
    /\ InlineIdle
    /\ TableIdle
    /\ ListIdle
    /\ HookIdle

NextCalls ==
    \/ CallGetMessagesForAPI /\ UNCHANGED <<mdVars, inlVars, tblVars, lstVars, hookVars, strVars>>
    \/ CallAddMessage /\ UNCHANGED <<mdVars, inlVars, tblVars, lstVars, hookVars, strVars>>

SpecCalls == InitCalls /\ [][NextCalls]_vars

(***************************************************************************)
(* useTranscriptAnalyzer (src/unnamed/part_001) and the handlers the page  *)
(* calls on it: the submit button and the follow-up input                  *)
(* (src/src/App.jsx), the transcript uploader (src/unnamed/part_002).      *)
(* Each action is one handler run up to its await, or the continuation of  *)
(* an await.  SpecHook runs the requests, with the uploader's errors, and   *)
(* SpecUpload the uploads, with the submit button.  A text is a sequence of tokens; a transcript is named by its *)
(* file and its summary by the transcript; error is whether it is set.     *)
(* tone and analysisMethod only change the wording of the prompts and are  *)
(* left out, and so is transcriptText, which no handler reads.             *)
(***************************************************************************)

\* s without its i-th element
RemoveAt(s, i) == [j \in 1..(Len(s) - 1) |-> IF j < i THEN s[j] ELSE s[j + 1]]

\* a transcript of at most MAX_SUMMARY_LENGTH characters, which
\* summarizeTranscript returns as it is, and a longer one, which it sends
\* to the completion API
Files == {"short.pdf", "long.pdf"}

Questions == {"q1"}

\* summarizedText.trim() and additionalContext.trim() are not empty
hasSummary == summarizedText # ""

hasContext == additionalContext # ""

\* buildFollowUpPrompt(userQuestion)
buildFollowUpPrompt(userQuestion) ==
    << "Based on the previous analysis of my transcript,", userQuestion,
       "Please provide a conversational response" >>

\* buildInitialAnalysisPrompt(transcriptText, additionalContext, '')
buildInitialAnalysisPrompt(transcriptText, context) ==
    (IF transcriptText # "" THEN <<"TRANSCRIPT CONTENT:", transcriptText>> ELSE <<>>)
        \o (IF context # "" THEN <<"ADDITIONAL CONTEXT:", context>> ELSE <<>>)
        \o <<"Please provide a comprehensive analysis">>

\* the system prompt of buildMessages, which depends on the kind of request
SystemPrompt(conversationHistory, isFollowUp) ==
    IF isFollowUp /\ Len(conversationHistory) > 0
    THEN <<"system prompt", "IMPORTANT CONTEXT: This is a follow-up question">>
    ELSE <<"system prompt", "IMPORTANT: This is the initial transcript analysis">>

\* buildMessages(transcriptText, additionalContext, tone, analysisMethod,
\* conversationHistory, isFollowUp): both prompts are non-empty texts, so
\* the user prompt is always pushed
buildMessages(transcriptText, context, conversationHistory, isFollowUp) ==
    << [role |-> "system", content |-> SystemPrompt(conversationHistory, isFollowUp)] >>
        \o conversationHistory
        \o << [role    |-> "user",
               content |-> IF isFollowUp
                           THEN buildFollowUpPrompt(context)
                           ELSE buildInitialAnalysisPrompt(transcriptText, context)] >>

\* userMessageContent of handleSubmit
UserMessageContent(isFollowUp) ==
    IF isFollowUp
    THEN (IF additionalContext # "" THEN <<additionalContext>> ELSE <<>>)
    ELSE <<"I've uploaded my transcript">>
            \o (IF uploadedFileName # "" THEN <<uploadedFileName>> ELSE <<>>)
            \o (IF additionalContext # "" THEN <<"Additional Context:", additionalContext>>
                ELSE <<>>)

\* faulty variant: the error message is not set
handleErrorKeepsError ==
    /\ error' = error
    /\ isLoading' = FALSE
    /\ isStreaming' = FALSE

\* handleError(errorMessage)
handleError ==
    /\ error' = TRUE
    /\ isLoading' = FALSE
    /\ isStreaming' = FALSE

\* the try block of handleSubmit up to  await sendGroqRequest(...): the
\* history is read, the messages are built, the user message is shown and
\* stored; Date.now() reads the number of the request.  An addMessage that
\* throws is caught like a failed request.
SendRequest(isFollowUp, userMessageContent) ==
    /\ sent < MaxRequests
    /\ sent' = sent + 1
    /\ messages' = Append(messages, <<"user", userMessageContent>>)
    /\ streamingText' = <<>>
    /\ IF AddMessageThrows("user", userMessageContent)
       THEN /\ handleError
            /\ handled' = "message not stored"
            /\ UNCHANGED <<stored, inFlight>>
       ELSE /\ error' = FALSE
            /\ isLoading' = TRUE
            /\ isStreaming' = TRUE
            /\ stored' = addMessage(stored, "user", userMessageContent, "none", sent + 1).stored
            /\ inFlight' = Append(inFlight,
                   [isFollowUp   |-> isFollowUp,
                    question     |-> additionalContext,
                    apiMessages  |-> buildMessages(IF isFollowUp THEN "" ELSE summarizedText,
                                                   additionalContext,
                                                   getMessagesForAPI(stored, 5, sent + 1),
                                                   isFollowUp),
                    fullResponse |-> <<>>])
            /\ handled' = "request sent"

\* handleSubmit(isFollowUp), up to  await sendGroqRequest(...)
handleSubmit(isFollowUp) ==
    IF isLoading \/ isStreaming
    THEN /\ handled' = "submit returned"
         /\ UNCHANGED <<isLoading, isStreaming, error, inFlight, messages, streamingText,
                        sent, stored>>
    ELSE IF ~isFollowUp /\ ~hasSummary /\ ~hasContext
    THEN /\ error' = TRUE
         /\ handled' = "submit without input"
         /\ UNCHANGED <<isLoading, isStreaming, inFlight, messages, streamingText, sent,
                        stored>>
    ELSE IF isProcessing
    THEN /\ error' = TRUE
         /\ handled' = "submit while processing"
         /\ UNCHANGED <<isLoading, isStreaming, inFlight, messages, streamingText, sent,
                        stored>>
    ELSE SendRequest(isFollowUp, UserMessageContent(isFollowUp))

\* the submit button: handleSubmit(false)
SubmitButton ==
    /\ handleSubmit(FALSE)
    /\ UNCHANGED <<isProcessing, summarizedText, additionalContext, uploadedFileName,
                   processingStage, summarizing, extracting>>

\* the follow-up button and the Enter key: handleFollowUp()
handleFollowUp ==
    /\ IF ~hasContext
       THEN /\ error' = TRUE
            /\ handled' = "follow-up without input"
            /\ UNCHANGED <<isLoading, isStreaming, inFlight, messages, streamingText, sent,
                           stored>>
       ELSE handleSubmit(TRUE)
    /\ UNCHANGED <<isProcessing, summarizedText, additionalContext, uploadedFileName,
                   processingStage, summarizing, extracting>>

\* onChunk(chunk) of a request that is awaited: the response has one chunk
\* or none
StreamChunk ==
    /\ \E i \in 1..Len(inFlight) :
          /\ inFlight[i].fullResponse = <<>>
          /\ inFlight' = [inFlight EXCEPT ![i].fullResponse = <<"r">>]
          /\ streamingText' = <<"r">>
    /\ handled' = "chunk shown"
    /\ UNCHANGED <<isLoading, isStreaming, isProcessing, summarizedText, additionalContext,
                   error, extracting, messages, uploadedFileName, processingStage,
                   summarizing, sent, stored>>

\* the rest of the try block once sendGroqRequest has resolved with the
\* response, then the finally block; addMessage throws on an empty response,
\* which the catch block hands to handleError
ResponseReceived(request, response) ==
    /\ streamingText' = <<>>
    /\ messages' = Append(messages, <<"assistant", response>>)
    /\ IF AddMessageThrows("assistant", response)
       THEN /\ handleError
            /\ handled' = "response not stored"
            /\ UNCHANGED <<stored, additionalContext>>
       ELSE /\ stored' = addMessage(stored, "assistant", response, "none", sent).stored
            /\ additionalContext' = IF request.isFollowUp THEN "" ELSE additionalContext
            /\ isLoading' = FALSE
            /\ isStreaming' = FALSE
            /\ handled' = "response shown"
            /\ UNCHANGED error

\* sendGroqRequest resolves
RequestResolves ==
    /\ \E i \in 1..Len(inFlight) :
          /\ inFlight' = RemoveAt(inFlight, i)
          /\ ResponseReceived(inFlight[i], inFlight[i].fullResponse)
    /\ UNCHANGED <<isProcessing, summarizedText, extracting, uploadedFileName,
                   processingStage, summarizing, sent>>

\* sendGroqRequest rejects: the catch block, then the finally block
RequestRejects ==
    /\ \E i \in 1..Len(inFlight) : inFlight' = RemoveAt(inFlight, i)
    /\ handleError
    /\ handled' = "request failed"
    /\ UNCHANGED <<isProcessing, summarizedText, additionalContext, extracting, messages,
                   streamingText, uploadedFileName, processingStage, summarizing, sent,
                   stored>>

\* processFile(file), up to  await extractTextFromPDF(file):  a file that is
\* not a PDF is reported through onError
ProcessFile ==
    /\ \E isValidPDF \in BOOLEAN :
          IF ~isValidPDF
          THEN /\ handleError
               /\ handled' = "invalid file"
               /\ UNCHANGED extracting
          ELSE /\ ~extracting
               /\ extracting' = TRUE
               /\ handled' = "extracting"
               /\ UNCHANGED <<isLoading, isStreaming, error>>
    /\ UNCHANGED <<isProcessing, summarizedText, additionalContext, inFlight, messages,
                   streamingText, uploadedFileName, processingStage, summarizing, sent,
                   stored>>

\* extractTextFromPDF rejects: onError
ExtractionFails ==
    /\ extracting
    /\ extracting' = FALSE
    /\ handleError
    /\ handled' = "extraction failed"
    /\ UNCHANGED <<isProcessing, summarizedText, additionalContext, inFlight, messages,
                   streamingText, uploadedFileName, processingStage, summarizing, sent,
                   stored>>

\* handleTranscriptExtracted(text, fileName), up to  await summarizeTranscript:
\* for a short text summarizeTranscript returns at once and the rest of the
\* handler runs before any other handler
handleTranscriptExtracted(transcript, fileName) ==
    IF transcript = ""
    THEN /\ error' = TRUE
         /\ handled' = "no text"
         /\ UNCHANGED <<isProcessing, summarizedText, uploadedFileName, processingStage,
                        summarizing>>
    ELSE /\ uploadedFileName' = fileName
         /\ error' = FALSE
         /\ IF transcript = "short.pdf"
            THEN /\ summarizedText' = transcript
                 /\ processingStage' = "ready"
                 /\ isProcessing' = FALSE
                 /\ handled' = "summary ready"
                 /\ UNCHANGED summarizing
            ELSE /\ Len(summarizing) < MaxPending
                 /\ isProcessing' = TRUE
                 /\ processingStage' = "summarizing"
                 /\ summarizing' = Append(summarizing, transcript)
                 /\ handled' = "summarizing"
                 /\ UNCHANGED summarizedText

\* extractTextFromPDF resolves: onTranscriptExtracted(extractedText, file.name)
ExtractionSucceeds ==
    /\ extracting
    /\ extracting' = FALSE
    /\ \E transcript \in Files \cup {""} : handleTranscriptExtracted(transcript, transcript)
    /\ UNCHANGED <<isLoading, isStreaming, additionalContext, inFlight, messages,
                   streamingText, sent, stored>>

\* summarizeTranscript resolves with the summary, or with the truncated text
\* when its request failed
SummaryReady ==
    /\ \E i \in 1..Len(summarizing) :
          /\ summarizedText' = summarizing[i]
          /\ summarizing' = RemoveAt(summarizing, i)
          /\ isProcessing' = FALSE
    /\ processingStage' = "ready"
    /\ handled' = "summary ready"
    /\ UNCHANGED <<isLoading, isStreaming, additionalContext, error, inFlight, extracting,
                   messages, streamingText, uploadedFileName, sent, stored>>

\* handleRemoveFile(): onTranscriptExtracted('', '')
RemoveFile ==
    /\ handleTranscriptExtracted("", "")
    /\ UNCHANGED <<isLoading, isStreaming, additionalContext, inFlight, extracting, messages,
                   streamingText, sent, stored>>

\* handleClear()
handleClear ==
    /\ summarizedText' = ""
    /\ additionalContext' = ""
    /\ messages' = <<>>
    /\ error' = FALSE
    /\ uploadedFileName' = ""
    /\ processingStage' = ""
    /\ isProcessing' = FALSE
    /\ stored' = <<>>
    /\ handled' = "cleared"
    /\ UNCHANGED <<isLoading, isStreaming, inFlight, extracting, streamingText, summarizing,
                   sent>>

\* typing in a context input: setAdditionalContext(e.target.value)
TypeContext ==
    /\ \E typed \in Questions \cup {""} : additionalContext' = typed
    /\ handled' = "typed"
    /\ UNCHANGED <<isLoading, isStreaming, isProcessing, summarizedText, error, inFlight,
                   extracting, messages, streamingText, uploadedFileName, processingStage,
                   summarizing, sent, stored>>

InitHook ==
    /\ HookIdle
    /\ MarkdownIdle
    /\ InlineIdle
    /\ TableIdle
    /\ ListIdle
    /\ StorageIdle
    /\ SvcIdle

NextHook ==
    \/ SubmitButton /\ UNCHANGED <<mdVars, inlVars, tblVars, lstVars, added, sclock, outcome, svcVars>>
    \/ handleFollowUp /\ UNCHANGED <<mdVars, inlVars, tblVars, lstVars, added, sclock, outcome, svcVars>>
    \/ StreamChunk /\ UNCHANGED <<mdVars, inlVars, tblVars, lstVars, added, sclock, outcome, svcVars>>
    \/ RequestResolves /\ UNCHANGED <<mdVars, inlVars, tblVars, lstVars, added, sclock, outcome, svcVars>>
    \/ RequestRejects /\ UNCHANGED <<mdVars, inlVars, tblVars, lstVars, added, sclock, outcome, svcVars>>
    \/ ProcessFile /\ UNCHANGED <<mdVars, inlVars, tblVars, lstVars, added, sclock, outcome, svcVars>>
    \/ ExtractionFails /\ UNCHANGED <<mdVars, inlVars, tblVars, lstVars, added, sclock, outcome, svcVars>>
    \/ handleClear /\ UNCHANGED <<mdVars, inlVars, tblVars, lstVars, added, sclock, outcome, svcVars>>
    \/ TypeContext /\ UNCHANGED <<mdVars, inlVars, tblVars, lstVars, added, sclock, outcome, svcVars>>

SpecHook == InitHook /\ [][NextHook]_vars

\* the transcript uploader with the submit button: the extraction and the
\* summarization of the dropped files, and the initial analysis request
NextUpload ==
    \/ ProcessFile /\ UNCHANGED <<mdVars, inlVars, tblVars, lstVars, added, sclock, outcome, svcVars>>
    \/ ExtractionFails /\ UNCHANGED <<mdVars, inlVars, tblVars, lstVars, added, sclock, outcome, svcVars>>
    \/ ExtractionSucceeds /\ UNCHANGED <<mdVars, inlVars, tblVars, lstVars, added, sclock, outcome, svcVars>>
    \/ SummaryReady /\ UNCHANGED <<mdVars, inlVars, tblVars, lstVars, added, sclock, outcome, svcVars>>
    \/ RemoveFile /\ UNCHANGED <<mdVars, inlVars, tblVars, lstVars, added, sclock, outcome, svcVars>>
    \/ SubmitButton /\ UNCHANGED <<mdVars, inlVars, tblVars, lstVars, added, sclock, outcome, svcVars>>
    \/ RequestResolves /\ UNCHANGED <<mdVars, inlVars, tblVars, lstVars, added, sclock, outcome, svcVars>>
    \/ handleClear /\ UNCHANGED <<mdVars, inlVars, tblVars, lstVars, added, sclock, outcome, svcVars>>

SpecUpload == InitHook /\ [][NextUpload]_vars

(***************************************************************************)
(* sendStreamingRequest (src/src/components/web-header.jsx): the response  *)
(* body is a text of server-sent event lines, delivered by reader.read()   *)
(* in pieces of any length.  The JSON of an event is written here as the   *)
(* delta content between braces: {a} carries the content "a", {} carries   *)
(* none, and anything else is text that JSON.parse rejects.                *)
(***************************************************************************)
DataPrefix == <<"d", "a", "t", "a", ":", " ">>

DoneMark == <<"[", "D", "O", "N", "E", "]">>

\* JSON.parse(data) and json.choices[0]?.delta?.content || '': the content,
\* or <<"throws">>
DeltaContent(data) ==
    IF /\ Len(data) >= 2
       /\ data[1] = "{"
       /\ data[Len(data)] = "}"
       /\ \A i \in 2..(Len(data) - 1) : data[i] \in Letter
    THEN Substring(data, 1, Len(data) - 1)
    ELSE <<"throws">>

\* the chunk a line contributes, <<>> when it contributes none: a line that
\* does not start with 'data: ', '[DONE]', a line JSON.parse rejects, an
\* empty content
ChunkOf(line) ==
    IF ~StartsWithAt(line, DataPrefix, 0) THEN <<>>
    ELSE IF SubstringFrom(line, 6) = DoneMark THEN <<>>
    ELSE IF DeltaContent(SubstringFrom(line, 6)) = <<"throws">> THEN <<>>
    ELSE DeltaContent(SubstringFrom(line, 6))

\* fullText += chunk; onChunk(chunk), for the lines in order: the state is
\* <<fullText, chunks>>
RECURSIVE ProcessLines(_, _)
ProcessLines(lines, state) ==
    IF lines = <<>> THEN state
    ELSE ProcessLines(Tail(lines),
                      IF ChunkOf(Head(lines)) = <<>>
                      THEN state
                      ELSE << state[1] \o ChunkOf(Head(lines)),
                              Append(state[2], ChunkOf(Head(lines))) >>)

\* faulty variant: the incomplete last line is dropped
DropLastLine(lines) == <<>>

\* buffer = lines.pop() || ''
PopLastLine(lines) == lines[Len(lines)]

\* the lines left in the array after lines.pop()
CompleteLines(lines) == SubSeq(lines, 1, Len(lines) - 1)

ReadLines(lines) ==
    /\ buffer' = PopLastLine(lines)
    /\ cut' = (cut \/ lines[Len(lines)] # <<>>)
    /\ fullText' = ProcessLines(CompleteLines(lines), <<fullText, chunks>>)[1]
    /\ chunks' = ProcessLines(CompleteLines(lines), <<fullText, chunks>>)[2]

\* !response.ok: the request throws before the body is read
ResponseNotOk ==
    /\ spc = "fetched"
    /\ spc' = "threw"
    /\ UNCHANGED <<body, readPos, buffer, fullText, chunks, cut>>

\* one reader.read() that delivers the next n characters of the body
ReadValue ==
    /\ spc \in {"fetched", "reading"}
    /\ readPos < Len(body)
    /\ \E n \in 1..Min(MaxRead, Len(body) - readPos) :
          /\ readPos' = readPos + n
          /\ ReadLines(SplitLines(buffer \o Substring(body, readPos, readPos + n)))
    /\ spc' = "reading"
    /\ UNCHANGED body

\* the read that reports done: the remaining buffer is processed and fullText
\* is returned
ReadDone ==
    /\ spc \in {"fetched", "reading"}
    /\ readPos = Len(body)
    /\ fullText' = ProcessLines(<<buffer>>, <<fullText, chunks>>)[1]
    /\ chunks' = ProcessLines(<<buffer>>, <<fullText, chunks>>)[2]
    /\ spc' = "returned"
    /\ UNCHANGED <<body, readPos, buffer, cut>>

StreamLines ==
    { DataPrefix \o <<"{", "a", "}">>,
      DataPrefix \o <<"{", "b", "c", "}">>,
      DataPrefix \o <<"{", "}">>,
      DataPrefix \o DoneMark,
      DataPrefix \o <<"{", "a">>,
      <<>> }

\* the bodies: up to MaxStreamLines lines, the last one with or without its
\* newline
StreamBodies ==
    UNION { {Join(ls, <<NL>>), Join(ls, <<NL>>) \o <<NL>>} :
                ls \in SeqsUpTo(StreamLines, MaxStreamLines) \ {<<>>} }

InitStream ==
    /\ body \in StreamBodies
    /\ readPos = 0
    /\ buffer = <<>>
    /\ fullText = <<>>
    /\ chunks = <<>>
    /\ spc = "fetched"
    /\ cut = FALSE
    /\ CallIdle
    /\ MarkdownIdle
    /\ InlineIdle
    /\ TableIdle
    /\ ListIdle
    /\ StorageIdle
    /\ HookIdle

NextStream ==
    \/ ResponseNotOk /\ UNCHANGED <<mdVars, inlVars, tblVars, lstVars, stoVars, hookVars, callVars>>
    \/ ReadValue /\ UNCHANGED <<mdVars, inlVars, tblVars, lstVars, stoVars, hookVars, callVars>>
    \/ ReadDone /\ UNCHANGED <<mdVars, inlVars, tblVars, lstVars, stoVars, hookVars, callVars>>

SpecStream == InitStream /\ [][NextStream]_vars

(***************************************************************************)
(* Claims about parseInlineMarkdown, under SpecInline.                     *)
(***************************************************************************)
Overlap(p, q) == p.start < q.end /\ q.start < p.end

Kept(m) == m \in Range(validMatches)

StyledParts == SelectSeq(parts, LAMBDA x : x.type # "text")

\* C3: the kept matches do not overlap and start at strictly increasing offsets,
\* and the ranges of the parts (kept matches and plain pieces), in order, tile
\* [0, length) with no gap; the styled parts are the kept matches and every plain
\* piece is the text of its range.
InlineTokensPartitionText ==
    ipc = "done" /\ itext # <<>> =>
        /\ \A k \in 1..Len(validMatches) : validMatches[k].start < validMatches[k].end
        /\ \A k \in 1..(Len(validMatches) - 1) :
              /\ validMatches[k].start < validMatches[k + 1].start
              /\ validMatches[k].end <= validMatches[k + 1].start
        /\ parts # <<>>
        /\ parts[1].start = 0
        /\ parts[Len(parts)].end = Len(itext)
        /\ \A k \in 1..Len(parts) : parts[k].start < parts[k].end
        /\ \A k \in 1..(Len(parts) - 1) : parts[k].end = parts[k + 1].start
        /\ StyledParts = validMatches
        /\ \A k \in 1..Len(parts) :
              parts[k].type = "text" =>
                  parts[k].content = Substring(itext, parts[k].start, parts[k].end)

\* C3 witness: two kept matches with plain text between them and a discarded match
InlineTokensPartitionTextWitness ==
    /\ ipc = "done"
    /\ Len(validMatches) >= 2
    /\ Len(matches) > Len(validMatches)
    /\ \E k \in 2..(Len(parts) - 1) : parts[k].type = "text"

EarlyTypes == {"code", "link", "autolink"}
LateTypes  == {"bold", "italic"}

\* C4: when a code, link or autolink match overlaps a bold or italic match, the
\* bold or italic match is discarded and the other one is kept (or is itself
\* inside a kept code, link or autolink match), whichever of the two starts first.
EarlierRegisteredTypeWins ==
    ipc = "done" =>
        \A p \in Range(matches), q \in Range(matches) :
            p.type \in EarlyTypes /\ q.type \in LateTypes /\ Overlap(p, q) =>
                /\ ~Kept(q)
                /\ \/ Kept(p)
                   \/ \E r \in Range(validMatches) : r.type \in EarlyTypes /\ Overlap(r, p)

\* C5: when a code span is kept, no match that starts inside it is kept, and the
\* code part's content is the text between the backticks.
CodeSpanKeptWhole ==
    ipc = "done" =>
        \A c \in Range(validMatches) :
            c.type = "code" =>
                /\ \A m \in Range(matches) :
                      m # c /\ c.start <= m.start /\ m.start < c.end => ~Kept(m)
                /\ \E k \in 1..Len(parts) :
                      /\ parts[k].type = "code"
                      /\ parts[k].start = c.start
                      /\ parts[k].end = c.end
                      /\ parts[k].content = Substring(itext, c.start + 1, c.end - 1)

\* C5 witness: the text is a code span around *a*; the italic match inside it is
\* discarded and the result is the one code token
CodeSpanKeptWholeWitness ==
    /\ ipc = "done"
    /\ itext = <<BT, "*", "a", "*", BT>>
    /\ \E m \in Range(matches) : m.type = "italic" /\ m.start = 1 /\ ~Kept(m)
    /\ Len(parts) = 1
    /\ parts[1].type = "code"
    /\ parts[1].content = <<"*", "a", "*">>

\* C6: a non-empty text in which no pattern matches comes back as one plain-text
\* token equal to the text.
PlainTextIsOneToken ==
    ipc = "done" /\ itext # <<>> /\ matches = <<>> =>
        /\ iresult.isString
        /\ iresult.str = itext
        /\ Len(parts) = 1
        /\ parts[1].type = "text"
        /\ parts[1].content = itext

\* C6 witness: a text of several characters, markup characters among them, in
\* which nothing matches
PlainTextIsOneTokenWitness ==
    /\ ipc = "done"
    /\ matches = <<>>
    /\ Len(itext) >= 3
    /\ Includes(itext, "*")
    /\ Includes(itext, " ")

(***************************************************************************)
(* Claims about detectTable, under SpecTable.                              *)
(***************************************************************************)
tlines == TrimAll(SplitLines(tblock))

\* the cells of the source line of data row r (from 1) of the result
SourceCells(r) == parseRow(tlines[TableStart(tlines, 1) + 1 + r])

\* C7: a table that detectTable returns has at least 2 headers and 1 row, and
\* every row has as many cells as there are headers: the cells of its line, in
\* order, cut to that number or filled up with empty cells.
TableRowsMatchHeaders ==
    tpc = "done" /\ tresult.found =>
        /\ Len(tresult.headers) >= 2
        /\ Len(tresult.rows) >= 1
        /\ \A r \in 1..Len(tresult.rows) :
              /\ Len(tresult.rows[r]) = Len(tresult.headers)
              /\ \A c \in 1..Len(tresult.headers) :
                    tresult.rows[r][c] =
                        IF c <= Len(SourceCells(r)) THEN SourceCells(r)[c] ELSE <<>>

\* C7 witness: a table with a row that was filled up and a row that was cut
TableRowsMatchHeadersWitness ==
    /\ tpc = "done"
    /\ tresult.found
    /\ \E r \in 1..Len(tresult.rows) : Len(SourceCells(r)) < Len(tresult.headers)
    /\ \E r \in 1..Len(tresult.rows) : Len(SourceCells(r)) > Len(tresult.headers)


(***************************************************************************)
(* Claims about parseMarkdown, under Spec.                                 *)
(***************************************************************************)

\* what a reader sees of an element, piece by piece: a table's cells, a list's
\* items, a paragraph's, quote's or code block's lines
RECURSIVE VisibleItems(_)
VisibleItems(lis) ==
    Concat([k \in 1..Len(lis) |-> <<VisibleOf(lis[k].li)>> \o VisibleItems(lis[k].children)])

VisibleCell(cell) == VisibleOf(cell.content)

VisibleElement(e) ==
    CASE e.kind = "table"  ->
             [h \in 1..Len(e.th) |-> VisibleOf(e.th[h])]
             \o Concat([r \in 1..Len(e.td) |->
                          [c \in 1..Len(e.td[r]) |-> VisibleCell(e.td[r][c])]])
      [] e.kind = "header" -> <<VisibleOf(e.children)>>
      [] e.kind = "list"   -> VisibleItems(e.lis)
      [] e.kind = "para"   -> [k \in 1..Len(e.lines) |-> VisibleOf(e.lines[k])]
      [] e.kind = "code"   -> (IF e.hasLang THEN <<e.language>> ELSE <<>>)
                              \o (IF e.content = <<>> THEN <<>> ELSE SplitLines(e.content))
      [] e.kind = "hr"     -> <<>>
      [] e.kind = "quote"  -> SplitLines(VisibleOf(e.children))

VisibleText(els) == Concat([k \in 1..Len(els) |-> VisibleElement(els[k])])

\* the visible text of the lines of a chunk of a well-formed document
ChunkVisible(c) ==
    CASE c = "table"  -> << <<"A">>, <<"B">>, <<"1">>, <<"2">> >>
      [] c = "para"   -> << <<"p">> >>
      [] c = "header" -> << <<"h">> >>
      [] c = "bullet" -> << <<"i">> >>
      [] c = "quote"  -> << <<"q">> >>
      [] OTHER        -> <<>>

ExpectedVisible(d) == Concat([k \in 1..Len(d) |-> ChunkVisible(d[k])])

\* the maximal runs of non-blank chunks of a document
RECURSIVE Groups(_)
Groups(d) ==
    LET j == SetMin({k \in 1..Len(d) : d[k] = "blank"} \cup {Len(d) + 1})
    IN  IF d = <<>> THEN <<>>
        ELSE IF j = 1 THEN Groups(Tail(d))
        ELSE <<SubSeq(d, 1, j - 1)>> \o Groups(SubSeq(d, j + 1, Len(d)))

AllAre(g, c) == \A k \in 1..Len(g) : g[k] = c

\* one well-formed block: a table, a paragraph, a list, a quote, a rule, a header
\* (alone, or over a list or a paragraph), a closed code fence
WellFormedGroup(g) ==
    \/ g = <<"table">>
    \/ AllAre(g, "para")
    \/ AllAre(g, "bullet")
    \/ AllAre(g, "quote")
    \/ g = <<"rule">>
    \/ g[1] = "header" /\ (AllAre(Tail(g), "para") \/ AllAre(Tail(g), "bullet"))
    \/ /\ Len(g) >= 3
       /\ g[1] = "fence"
       /\ g[Len(g)] = "fence"
       /\ AllAre(SubSeq(g, 2, Len(g) - 1), "para")

WellFormedDoc(d) == \A k \in 1..Len(Groups(d)) : WellFormedGroup(Groups(d)[k])

\* C1: for a document of well-formed blocks separated by blank lines, the visible
\* text of the output is the visible text of the input's lines, each once, in order.
NoTextLostOrDuplicated ==
    pc = "done" /\ WellFormedDoc(doc) => VisibleText(elements) = ExpectedVisible(doc)

TableElements == SelectSeq(elements, LAMBDA e : e.kind = "table")

TablesOf(els) == [k \in 1..Len(els) |-> <<els[k].headers, els[k].rows>>]

TableChunks(d) == SelectSeq(d, LAMBDA c : c = "table")

\* every table chunk of d stands between blank lines (or the document's ends)
TablesIsolated(d, c) ==
    \A k \in 1..Len(d) :
        d[k] = c =>
            /\ k > 1 => d[k - 1] = "blank"
            /\ k < Len(d) => d[k + 1] = "blank"

\* C2: a document with k >= 1 table regions, each between blank lines, among
\* other well-formed blocks gives exactly k Table blocks, in order, each with
\* the headers and the data rows of its region.
EveryTableRegionIsATable ==
    /\ pc = "done"
    /\ WellFormedDoc(doc)
    /\ Len(TableChunks(doc)) >= 1
    =>  TablesOf(TableElements) =
            [k \in 1..Len(TableChunks(doc)) |->
                << << <<"A">>, <<"B">> >>, << << <<"1">>, <<"2">> >> >> >>]

ParagraphLines ==
    Concat([k \in 1..Len(elements) |->
              IF elements[k].kind = "para" THEN VisibleElement(elements[k]) ELSE <<>>])

\* C8: a region whose header row has one column, between blank lines, is not
\* rendered as a Table: its lines are in the output as paragraph text.
OneColumnRegionStaysText ==
    /\ pc = "done"
    /\ "table1" \in Range(doc)
    /\ TablesIsolated(doc, "table1")
    =>  /\ \A k \in 1..Len(elements) :
              elements[k].kind = "table" => <<"C">> \notin Range(elements[k].headers)
        /\ \A line \in Range(SplitLines(ChunkText("table1"))) :
              line \in Range(ParagraphLines)

\* the block a table element was made from
TableSource(e) ==
    IF e.key[1] = "table-placeholder"
    THEN tablePlaceholders[e.key[2] + 1].tableBlock
    ELSE Trim(blocks[e.key[2] + 1])

\* the line after the header row (the first line that holds a pipe) of a block
LineAfterHeader(block) ==
    LET lines == TrimAll(SplitLines(block))
        h     == SetMin({k \in 1..Len(lines) : Includes(lines[k], "|")})
    IN  IF h < Len(lines) THEN lines[h + 1] ELSE <<>>

\* a line of dashes, colons, pipes and whitespace only
ValidSeparatorRow(line) ==
    line # <<>> /\ AllIn(line, Whitespace \cup {"-", ":", "|"})

\* C9: a block is rendered as a Table only if the line right after its header
\* row is a valid separator row.
TableOnlyWithValidSeparator ==
    pc = "done" =>
        \A k \in 1..Len(elements) :
            elements[k].kind = "table" =>
                ValidSeparatorRow(LineAfterHeader(TableSource(elements[k])))

\* the classifiers in their order, and the first one that a trimmed non-empty
\* block matches
FirstClassifier(tb) ==
    IF IsPlaceholderBlock(tb) THEN "placeholder"
    ELSE IF IsHeaderBlock(tb) THEN "header"
    ELSE IF IsClosedFence(tb) THEN "code"
    ELSE IF IsRule(tb) THEN "hr"
    ELSE IF IsQuote(tb) THEN "quote"
    ELSE IF detectTable(tb).found THEN "table"
    ELSE IF detectList(tb).found THEN "list"
    ELSE "para"

\* the kinds of the elements keyed by block b (0-based), in order; a table made
\* from a placeholder is keyed by the placeholder's index instead
KindsAt(b) ==
    LET es == SelectSeq(elements,
                        LAMBDA e : e.key[1] # "table-placeholder" /\ e.key[2] = b)
    IN  [k \in 1..Len(es) |-> es[k].kind]

\* C10: every block is rendered by the first classifier it matches, in the order
\* placeholder, header, code, rule, quote, table, list, paragraph, and by no
\* later one; a whitespace-only block gives no element.
FirstMatchingClassifierRenders ==
    pc = "done" =>
        \A b \in 0..(Len(blocks) - 1) :
            LET tb == Trim(blocks[b + 1])
                c  == FirstClassifier(tb)
            IN  IF tb = <<>> \/ c = "placeholder" THEN KindsAt(b) = <<>>
                ELSE IF c = "header"
                     THEN KindsAt(b) \in {<<"header">>, <<"header", "list">>,
                                          <<"header", "para">>}
                ELSE KindsAt(b) = <<c>>

\* C10 witness: blocks that match two classifiers (a quote that is also a table,
\* a table whose first line is also a list item), and an empty block
FirstMatchingClassifierRendersWitness ==
    /\ pc = "done"
    /\ \E b \in 1..Len(blocks) :
          /\ detectTable(Trim(blocks[b])).found
          /\ \/ detectList(Trim(blocks[b])).found
             \/ IsQuote(Trim(blocks[b]))
          /\ KindsAt(b - 1) \in {<<"table">>, <<"quote">>}
    /\ \E b \in 1..Len(blocks) : Trim(blocks[b]) = <<>>


(***************************************************************************)
(* Claims about parseMarkdown, under SpecLines.                            *)
(***************************************************************************)

\* a block that starts with three backticks and has no three backticks after them
UnterminatedFence(tb) ==
    /\ Len(tb) >= 3
    /\ SubSeq(tb, 1, 3) = <<BT, BT, BT>>
    /\ ~\E i \in 4..(Len(tb) - 2) : SubSeq(tb, i, i + 2) = <<BT, BT, BT>>

\* the elements keyed by block b (0-based), a placeholder's table left out
ElementsAt(b) ==
    SelectSeq(elements, LAMBDA e : e.key[1] # "table-placeholder" /\ e.key[2] = b)

\* the non-blank lines of a block
NonBlankLines(tb) == SelectSeq(SplitLines(tb), LAMBDA l : Trim(l) # <<>>)

\* C11 (as claimed): a block with an unterminated fence is never a CodeBlock and
\* is rendered as a paragraph or a list.
UnterminatedFenceIsParagraphOrList ==
    pc = "done" =>
        \A b \in 1..Len(blocks) :
            UnterminatedFence(Trim(blocks[b])) =>
                KindsAt(b - 1) \in {<<"para">>, <<"list">>}

\* C11 (amended): a block with an unterminated fence is never a CodeBlock; it is
\* rendered by a later classifier, as a Table when detectTable finds one in it
\* and else as one Paragraph that shows every non-blank line of the block.
UnterminatedFenceFallsThrough ==
    pc = "done" =>
        \A b \in 1..Len(blocks) :
            UnterminatedFence(Trim(blocks[b])) =>
                /\ KindsAt(b - 1) \in {<<"table">>, <<"para">>}
                /\ KindsAt(b - 1) = <<"para">> =>
                      VisibleText(ElementsAt(b - 1)) = NonBlankLines(Trim(blocks[b]))

\* C11 witness: a block with an unterminated fence that is rendered as a table
UnterminatedFenceFallsThroughWitness ==
    /\ pc = "done"
    /\ \E b \in 1..Len(blocks) :
          UnterminatedFence(Trim(blocks[b])) /\ KindsAt(b - 1) = <<"table">>

\* the number of "#" a line starts with
LeadingHashes(line) == FirstNotIn(line, 0, {"#"})

\* the first line of a block is 1 to 6 "#" followed by text
HeaderFirstLine(tb) ==
    LET first == Trim(SplitLines(tb)[1])
    IN  LeadingHashes(first) \in 1..6 /\ Len(first) > LeadingHashes(first)

\* a line that starts with a bullet or an ordinal marker and whitespace
StartsWithMarker(line) ==
    \/ /\ Len(line) >= 2
       /\ line[1] \in {"-", "*", "+"}
       /\ line[2] \in Whitespace
    \/ \E d \in 1..Len(line) :
          /\ \A k \in 1..d : line[k] \in Digit
          /\ Len(line) >= d + 2
          /\ line[d + 1] \in {".", ")", "-"}
          /\ line[d + 2] \in Whitespace

\* C12: a block whose first line is 1 to 6 "#" followed by text gives a header
\* whose level is the number of "#" and whose text is the rest of that line only;
\* further non-blank lines give exactly one more element right after it, a list
\* when they start with a list marker and a paragraph otherwise.
HeaderThenOneSibling ==
    pc = "done" =>
        \A b \in 1..Len(blocks) :
            LET tb    == Trim(blocks[b])
                first == Trim(SplitLines(tb)[1])
                more  == NonBlankLines(Join(Tail(SplitLines(tb)), <<NL>>))
                es    == ElementsAt(b - 1)
            IN  tb # <<>> /\ HeaderFirstLine(tb) =>
                    /\ Len(es) >= 1
                    /\ es[1].kind = "header"
                    /\ es[1].level = LeadingHashes(first)
                    /\ VisibleOf(es[1].children) =
                           Trim(SubstringFrom(first, LeadingHashes(first)))
                    /\ IF more = <<>> THEN Len(es) = 1
                       ELSE /\ Len(es) = 2
                            /\ es[2].kind =
                                  IF StartsWithMarker(Trim(more[1])) THEN "list" ELSE "para"
                            /\ es[2].kind = "para" =>
                                  VisibleText(<<es[2]>>) = more

\* C12 witness: "## T\n- x\n- x" gives a level-2 header and then a list of 2 items
HeaderThenOneSiblingWitness ==
    /\ pc = "done"
    /\ doc = << <<"#", "#", " ", "T">>, <<"-", " ", "x">>, <<"-", " ", "x">> >>
    /\ Len(elements) = 2
    /\ elements[1].kind = "header" /\ elements[1].level = 2
    /\ elements[2].kind = "list" /\ Len(elements[2].items) = 2

(***************************************************************************)
(* More claims about parseMarkdown, under Spec.                            *)
(***************************************************************************)

\* C13: a block is rendered as a quote only if every one of its lines starts
\* with ">", and the quote's content is the lines with that prefix stripped.
QuoteOnlyIfEveryLinePrefixed ==
    pc = "done" =>
        \A k \in 1..Len(elements) :
            elements[k].kind = "quote" =>
                LET lines == SplitLines(Trim(blocks[elements[k].key[2] + 1]))
                IN  /\ \A j \in 1..Len(lines) : Len(lines[j]) >= 1 /\ lines[j][1] = ">"
                    /\ SplitLines(VisibleOf(elements[k].children)) =
                           [j \in 1..Len(lines) |->
                               IF Len(lines[j]) >= 2 /\ lines[j][2] \in Whitespace
                               THEN SubSeq(lines[j], 3, Len(lines[j]))
                               ELSE SubSeq(lines[j], 2, Len(lines[j]))]

(***************************************************************************)
(* Claims about detectList, under SpecList.                                *)
(***************************************************************************)

\* the number of whitespace characters a line starts with
IndentOf(line) ==
    CHOOSE n \in 0..Len(line) :
        /\ \A k \in 1..n : line[k] \in Whitespace
        /\ n = Len(line) \/ line[n + 1] \notin Whitespace

\* a line that is a list item: a marker and whitespace after its indentation
IsBulletLine(line) == StartsWithMarker(SubSeq(line, IndentOf(line) + 1, Len(line)))

\* the bullet lines of the block, in order
BulletLines == SelectSeq(NonBlankLines(lblock), IsBulletLine)

\* the original indentation of item k (items are numbered as they are created)
ItemIndent(k) == IndentOf(BulletLines[k])

\* the items of the forest are the bullet lines, one each, in order
ItemsAreBulletLines == Len(lresult.nodes) = Len(BulletLines)

\* every child is deeper than its parent
ChildrenAreDeeper ==
    \A k \in 1..Len(lresult.nodes) :
        lresult.nodes[k].parent # 0 => ItemIndent(k) > ItemIndent(lresult.nodes[k].parent)

\* the parent of an item is the nearest item before it with a smaller
\* indentation, the top level when there is none
ParentIsNearestShallower ==
    \A k \in 1..Len(lresult.nodes) :
        LET shallower == {j \in 1..(k - 1) : ItemIndent(j) < ItemIndent(k)}
        IN  lresult.nodes[k].parent = IF shallower = {} THEN 0 ELSE SetMax(shallower)

\* C14 (as claimed): the items of one sibling array have the same indentation,
\* every child is deeper than its parent, and the parent of an item is the
\* nearest item before it with a smaller indentation.
SiblingsShareIndentation ==
    lpc = "done" /\ lresult.found =>
        /\ ItemsAreBulletLines
        /\ \A j, k \in 1..Len(lresult.nodes) :
              lresult.nodes[j].parent = lresult.nodes[k].parent =>
                  ItemIndent(j) = ItemIndent(k)
        /\ ChildrenAreDeeper
        /\ ParentIsNearestShallower

\* C14 (amended): every child is deeper than its parent and the parent of an
\* item is the nearest item before it with a smaller indentation; within one
\* sibling array the indentation never grows from an item to a later one, and
\* it may shrink.
ParentIsNearestShallowerItem ==
    lpc = "done" /\ lresult.found =>
        /\ ItemsAreBulletLines
        /\ ChildrenAreDeeper
        /\ ParentIsNearestShallower
        /\ \A j, k \in 1..Len(lresult.nodes) :
              j < k /\ lresult.nodes[j].parent = lresult.nodes[k].parent =>
                  ItemIndent(j) >= ItemIndent(k)

\* C14 witness: "- a\n    * c\n  - b": c and b are both children of a, at
\* indentations 4 and 2
ParentIsNearestShallowerItemWitness ==
    /\ lpc = "done"
    /\ lresult.found
    /\ Len(lresult.items) = 1
    /\ Len(lresult.items[1].children) = 2
    /\ lresult.items[1].children[1].text = <<"c">>
    /\ lresult.items[1].children[2].text = <<"b">>

\* the positions of the bullet lines among the non-blank lines of the block
BulletPositions ==
    LET nb == NonBlankLines(lblock)
    IN  SelectSeq([i \in 1..Len(nb) |-> i], LAMBDA i : IsBulletLine(nb[i]))

\* the text of a bullet line after its marker
TextAfterMarker(line) ==
    LET s == SubSeq(line, IndentOf(line) + 1, Len(line))
        m == IF s[1] \in {"-", "*", "+"} THEN 1
             ELSE 1 + Cardinality({d \in 1..Len(s) : \A k \in 1..d : s[k] \in Digit})
    IN  Trim(SubSeq(s, m + 1, Len(s)))

\* the non-bullet lines between bullet line k and the next bullet line, trimmed
ContinuationsOf(k) ==
    LET nb   == NonBlankLines(lblock)
        from == BulletPositions[k] + 1
        to   == IF k < Len(BulletPositions) THEN BulletPositions[k + 1] - 1 ELSE Len(nb)
    IN  [i \in 1..(to - from + 1) |-> Trim(nb[from + i - 1])]

\* C15: every bullet line creates exactly one item and a non-bullet line none:
\* the forest has as many items as the block has bullet lines, and the text of
\* an item is the text of its bullet line followed by the trimmed non-bullet
\* lines that come before the next bullet line, joined by single spaces.
OneItemPerBulletLine ==
    lpc = "done" /\ lresult.found =>
        /\ Len(lresult.nodes) = Len(BulletPositions)
        /\ \A k \in 1..Len(lresult.nodes) :
              lresult.nodes[k].text =
                  Trim(Join(<<TextAfterMarker(BulletLines[k])>> \o ContinuationsOf(k),
                            <<" ">>))

\* C15 witness: "- a\n t\n  - b\n t": a continuation line after a top-level item
\* and another after a nested item
OneItemPerBulletLineWitness ==
    /\ lpc = "done"
    /\ lresult.found
    /\ Len(lresult.items) = 1
    /\ lresult.items[1].text = <<"a", " ", "t">>
    /\ Len(lresult.items[1].children) = 1
    /\ lresult.items[1].children[1].text = <<"b", " ", "t">>

(***************************************************************************)
(* More claims about parseMarkdown, under SpecLines.                       *)
(***************************************************************************)

\* a block that no classifier before the list classifier takes: it does not
\* start as a placeholder, a header, a fence or a quote, it is no rule and it
\* holds no pipe
LeftToListOrParagraph(tb) ==
    /\ tb # <<>>
    /\ tb[1] \notin {"_", "#", BT, ">"}
    /\ "|" \notin Range(tb)
    /\ ~(Len(tb) >= 3 /\ \A k \in 1..Len(tb) : tb[k] \in {"-", "*", "_"})

\* C16: a block is a list exactly when its first line starts with a bullet or
\* an ordinal marker; the first line's marker alone makes the list unordered or
\* ordered, whatever the markers of the later lines; a block whose first line
\* has no marker is one paragraph of all its non-blank lines.
FirstLineDecidesList ==
    pc = "done" =>
        \A b \in 1..Len(blocks) :
            LET tb    == Trim(blocks[b])
                first == SplitLines(tb)[1]
                es    == ElementsAt(b - 1)
            IN  LeftToListOrParagraph(tb) =>
                    /\ Len(es) = 1
                    /\ IF StartsWithMarker(first)
                       THEN /\ es[1].kind = "list"
                            /\ es[1].type = IF first[1] \in {"-", "*", "+"}
                                            THEN "unordered" ELSE "ordered"
                       ELSE /\ es[1].kind = "para"
                            /\ VisibleText(es) = NonBlankLines(tb)

\* C16 witness: "1) z\n- x" is an ordered list of two items
FirstLineDecidesListWitness ==
    /\ pc = "done"
    /\ \E k \in 1..Len(elements) :
          /\ elements[k].kind = "list"
          /\ elements[k].type = "ordered"
          /\ Len(elements[k].items) = 2
          /\ elements[k].items[2].text = <<"x">>

\* how far parseMarkdown has got
Progress ==
    CASE pc = "start"  -> 0
      [] pc = "split"  -> 1
      [] pc = "blocks" -> 2 + blockIdx
      [] pc = "threw"  -> 3 + Len(blocks)
      [] pc = "done"   -> 3 + Len(blocks)

\* parseMarkdown has returned, or it is at a point where it goes on: at its
\* start, before the split, or in forEach with the blocks left to process
ReturnedOrRunning ==
    \/ pc = "done"
    \/ pc \in {"start", "split"}
    \/ pc = "blocks" /\ blockIdx <= Len(blocks)

\* C17: parseMarkdown is total: whatever the document, it raises no error and
\* it returns (it never stops before its return, every step takes it further,
\* and it cannot go further than the length of the text allows); for the empty
\* string it returns the empty collection.
ParseMarkdownIsTotal ==
    /\ [](ReturnedOrRunning /\ Progress <= Len(text) + 4)
    /\ [](pc = "done" /\ text = <<>> => elements = <<>>)
    /\ [][Progress' > Progress]_vars

\* C17 witness: "- x\n    1) z\n  - y", a list whose indentation goes from 0 to
\* 4 and back to 2, has been rendered and returned
ParseMarkdownIsTotalWitness ==
    /\ pc = "done"
    /\ doc = << <<"-", " ", "x">>,
                <<" ", " ", " ", " ", "1", ")", " ", "z">>,
                <<" ", " ", "-", " ", "y">> >>
    /\ Len(elements) = 1
    /\ elements[1].kind = "list"
    /\ Len(elements[1].items[1].children) = 2

(***************************************************************************)
(* Claims about the cells of a table, under SpecCells.                     *)
(***************************************************************************)

\* the headers of the explored tables that contain "strength" in any case
StrengthHeaders ==
    { <<"S", "t", "r", "e", "n", "g", "t", "h">>,
      <<"s", "t", "r", "e", "n", "g", "t", "h">>,
      <<"a", " ", "S", "T", "R", "E", "N", "G", "T", "H">> }

\* the cell values that are "strong", "weak" or "average" once trimmed and
\* lower-cased
RecognizedValues ==
    { <<"s", "t", "r", "o", "n", "g">>,
      <<"S", "t", "r", "o", "n", "g">>,
      <<" ", "W", "E", "A", "K", " ">>,
      <<"w", "e", "a", "k">>,
      <<"a", "v", "e", "r", "a", "g", "e">> }

\* C18: a cell is a badge exactly when its column's header contains "strength"
\* in any case and its trimmed, lower-cased text is strong, weak or average;
\* every other cell is the inline content of its text; a table extracted by the
\* pre-pass and a table detected in its block give the same cells.
BadgeOnlyInStrengthColumn ==
    pc = "done" /\ doc[1] # "empty" =>
        /\ Len(elements) = 1
        /\ elements[1].kind = "table"
        /\ elements[1].key[1] = IF doc[1] = "piped" THEN "table-placeholder" ELSE "table"
        /\ Len(elements[1].td) = 1
        /\ Len(elements[1].td[1]) = 2
        /\ ~elements[1].td[1][1].badge
        /\ VisibleOf(elements[1].td[1][1].content) = <<"w", "e", "a", "k">>
        /\ elements[1].td[1][2].badge <=>
               (doc[2] \in StrengthHeaders /\ doc[3] \in RecognizedValues)
        /\ elements[1].rows[1][2] = Trim(doc[3])
        /\ elements[1].td[1][2].content = parseInlineMarkdown(Trim(doc[3]))

\* C18 witness: " WEAK " under "a STRENGTH" is a badge in a table that came
\* through a placeholder
BadgeOnlyInStrengthColumnWitness ==
    /\ pc = "done"
    /\ doc = << "piped", <<"a", " ", "S", "T", "R", "E", "N", "G", "T", "H">>,
                <<" ", "W", "E", "A", "K", " ">> >>
    /\ Len(elements) = 1
    /\ elements[1].key[1] = "table-placeholder"
    /\ elements[1].td[1][2].badge

(***************************************************************************)
(* Claims about the session storage service, under SpecStorage.            *)
(***************************************************************************)

\* the messages of the stored history
StoredMessages == getHistory(stored, sclock).messages

\* the last n elements of a sequence
LastN(s, n) == IF Len(s) <= n THEN s ELSE [i \in 1..n |-> s[Len(s) - n + i]]

AtMostOneRequestInFlight == Len(inFlight) <= 1

(***************************************************************************)
(* Claims about session-storage.js called once, under SpecCalls.           *)
(***************************************************************************)
\* the messages of the stored item, each reduced to role and content
StoredForAPI ==
    [i \in 1..Len(getHistory(stored, 0).messages) |->
        [role    |-> getHistory(stored, 0).messages[i].role,
         content |-> getHistory(stored, 0).messages[i].content]]

\* C23: for every count >= 0, getMessagesForAPI(count) returns the last
\* min(count, n) of the n stored messages, in stored order, reduced to role
\* and content, and never more than count entries nor more than 5.
GetMessagesReturnsLastCount ==
    (called # <<>> /\ called[1] = "getMessagesForAPI") =>
        /\ returned = LastN(StoredForAPI, Min(called[2], Len(StoredForAPI)))
        /\ Len(returned) <= called[2]
        /\ Len(returned) <= MAX_MESSAGES

\* C24: addMessage with an empty or missing role or content, or with a role
\* other than "user" and "assistant", throws and leaves the stored history
\* unchanged; with valid arguments it does not throw, whether sessionStorage
\* works, fails to write, or fails to read and write, and a failure leaves
\* the stored item as it was.
AddMessageErrors ==
    (called # <<>> /\ called[1] = "addMessage") =>
        /\ (called[2] \notin {"user", "assistant"} \/ called[3] = <<>>)
              => (returned = "threw" /\ stored = called[5])
        /\ (called[2] \in {"user", "assistant"} /\ called[3] # <<>>)
              => /\ returned # "threw"
                 /\ called[4] # "none" => (returned = "caught" /\ stored = called[5])
                 /\ called[4] = "none" => (returned = "stored" /\ stored # called[5])

\* addMessage('system', ...) threw on a history that holds messages, and a
\* valid addMessage met a sessionStorage that throws
AddMessageErrorsWitness ==
    /\ called # <<>>
    /\ called[1] = "addMessage"
    /\ called[2] = "system"
    /\ called[3] # <<>>
    /\ called[5] # <<>>
    /\ returned = "threw"

(***************************************************************************)
(* Claims about sendStreamingRequest, under SpecStream.                    *)
(***************************************************************************)
LineChunks(t) == [i \in 1..Len(SplitLines(t)) |-> ChunkOf(SplitLines(t)[i])]

IsChunk(c) == c # <<>>

\* the chunks of the lines of the whole text, in order
ExpectedChunks(t) == SelectSeq(LineChunks(t), IsChunk)

\* C25: what sendStreamingRequest returns is the concatenation, in order, of
\* the chunks it passed to onChunk, and these are the contents of the body's
\* 'data: ' lines taken once each, the last line included, whatever the
\* reads were: '[DONE]' and unparsable lines contribute nothing.
StreamedTextIsChunks ==
    /\ fullText = Concat(chunks)
    /\ spc = "returned" => chunks = ExpectedChunks(body)

\* a body of three events whose last line has no newline was returned after
\* a read that ended inside a line, with a '[DONE]' line in the middle
StreamedTextIsChunksWitness ==
    /\ spc = "returned"
    /\ cut
    /\ body = DataPrefix \o <<"{", "a", "}", NL>> \o DataPrefix \o DoneMark \o <<NL>>
                \o DataPrefix \o <<"{", "b", "c", "}">>
    /\ fullText = <<"a", "b", "c">>

(***************************************************************************)
(* Claims about the requests of useTranscriptAnalyzer, under SpecHook.     *)
(***************************************************************************)
\* C29: no two consecutive stored messages have the same role, after any
\* sequence of submits, request failures, retries and clears.
HistoryAlternatesRoles ==
    \A i \in 1..(Len(StoredMessages) - 1) :
        StoredMessages[i].role # StoredMessages[i + 1].role

\* what handled holds after a handleSubmit that got past handleFollowUp
SubmitOutcomes ==
    { "submit returned", "submit without input", "submit while processing",
      "request sent", "message not stored" }

\* C22: once the local message list and the stored history are empty, as
\* handleClear leaves them, they stay empty until handleSubmit is invoked,
\* also when a completion request was in flight at the time of the clear.
ClearedStaysEmpty ==
    [][(messages = <<>> /\ StoredMessages = <<>> /\ handled' \notin SubmitOutcomes)
          => (messages' = <<>> /\ StoredMessages' = <<>>)]_vars

\* the messages a request was sent with
SentMessages == inFlight'[Len(inFlight')].apiMessages

SentQuestion == inFlight'[Len(inFlight')].question

\* text mentions the question
Mentions(content, question) == \E k \in 1..Len(content) : content[k] = question

\* the list is one system message, the last 5 stored messages in stored
\* order, one user prompt
RequestListShape ==
    /\ Len(SentMessages) = Len(LastN(StoredForAPI, 5)) + 2
    /\ SentMessages[1].role = "system"
    /\ \A k \in 2..Len(SentMessages) : SentMessages[k].role # "system"
    /\ SubSeq(SentMessages, 2, Len(SentMessages) - 1) = LastN(StoredForAPI, 5)
    /\ SentMessages[Len(SentMessages)].role = "user"

\* the question of the request is in one message of the list
QuestionOnce ==
    SentQuestion # "" =>
        Cardinality({k \in 1..Len(SentMessages) :
                        Mentions(SentMessages[k].content, SentQuestion)}) = 1

\* C21: the list built for every request is one system message, the history
\* of at most 5 messages in stored order, one current user prompt, and the
\* current question appears exactly once in it.
RequestListHoldsQuestionOnce ==
    [][handled' = "request sent" => (RequestListShape /\ QuestionOnce)]_vars

\* the shape alone, which every request has
RequestListHasShape ==
    [][handled' = "request sent" => RequestListShape]_vars

\* C26: a step in which a completion request resolves or rejects leaves
\* isLoading and isStreaming false and no streaming text displayed, and a
\* rejection leaves error set; when no request is awaited both flags are
\* false; the handleSubmit that follows a rejection does not return at the
\* isLoading || isStreaming test.
RequestEndsCleanly ==
    /\ [](inFlight = <<>> => (~isLoading /\ ~isStreaming))
    /\ [][Len(inFlight') < Len(inFlight)
            => /\ ~isLoading'
               /\ ~isStreaming'
               /\ ~(isStreaming' /\ streamingText' # <<>>)
               /\ handled' \in {"request failed", "response not stored"} => error']_vars
    /\ [][handled = "request failed" => handled' # "submit returned"]_vars

\* a request rejected after a chunk had been streamed: the text is kept but
\* not displayed, the error is set, no request is awaited
RequestEndsCleanlyWitness ==
    /\ handled = "request failed"
    /\ streamingText = <<"r">>
    /\ error
    /\ ~isLoading
    /\ ~isStreaming
    /\ inFlight = <<>>
    /\ sent = 1

(***************************************************************************)
(* Claims about the uploads of useTranscriptAnalyzer, under SpecUpload.    *)
(***************************************************************************)
\* C27: no completion request is sent while a summarization started by
\* handleTranscriptExtracted is pending.
NoRequestWhileSummarizing == ~(handled = "request sent" /\ summarizing # <<>>)

\* C28: once no summarization is pending, summarizedText is the summary of
\* the transcript passed last to handleTranscriptExtracted, whose file name
\* is in uploadedFileName, processingStage is 'ready' and isProcessing is
\* false.
SummaryIsOfLatestTranscript ==
    (summarizing = <<>> /\ uploadedFileName # "") =>
        /\ summarizedText = uploadedFileName
        /\ processingStage = "ready"
        /\ ~isProcessing

============================================================================
